---- MODULE Spec2Model ----
(***************************************************************************)
(* Finder-helper gold collection: the tick driver of simulation.py, the    *)
(* robot state machine of robot.py and the grid of grid.py.                *)
(*                                                                         *)
(* Positions are pairs <<row, col>>, 0-based.  Python's None is NoId for   *)
(* robot ids and message indices and NoPos for positions.                  *)
(***************************************************************************)
EXTENDS Integers, Sequences, FiniteSets, TLC

(* ---------------------------------------------------------------------- *)
(* Bounds of the model                                                     *)
(* ---------------------------------------------------------------------- *)
GridSize == 3
MaxSteps == 23
MaxDelay == 1

(* ---------------------------------------------------------------------- *)
(* Program constants                                                       *)
(* ---------------------------------------------------------------------- *)
MinDelay == 1
max_timeout == 15
WaitAtGoldTimeout == 30
DepositTimeout == 20
PickupTimeout == 5
Deposit1Mark == 2
Deposit2Mark == 3
InvalidCell == -1
Group2IdBase == 10

NoId == 0 - 1
NoPos == <<0 - 1, 0 - 1>>

(* main.py 16-29: robot i of group 1 has id i, robot i of group 2 has id i + 10 *)
GroupOf(id) == IF id < Group2IdBase THEN 1 ELSE 2

Coord == 0 .. (GridSize - 1)
Cells == Coord \X Coord

Abs(n) == IF n < 0 THEN 0 - n ELSE n
Manhattan(p, q) == Abs(p[1] - q[1]) + Abs(p[2] - q[2])

(* all_robots = group1 + group2, as a sequence in increasing id order *)
RECURSIVE SortedSeq(_)
SortedSeq(S) ==
  IF S = {} THEN <<>>
  ELSE LET m == CHOOSE x \in S : \A y \in S : x <= y
       IN <<m>> \o SortedSeq(S \ {m})

(* ---------------------------------------------------------------------- *)
(* grid.py                                                                 *)
(* ---------------------------------------------------------------------- *)
Deposit1Pos == <<0, 0>>
Deposit2Pos == <<GridSize - 1, GridSize - 1>>
DepositCells == {Deposit1Pos, Deposit2Pos}

InBounds(pos) == pos[1] >= 0 /\ pos[1] < GridSize /\ pos[2] >= 0 /\ pos[2] < GridSize

(* Grid.get_cell *)
get_cell(g, pos) == IF InBounds(pos) THEN g[pos] ELSE InvalidCell

(* Grid.__init__: deposits first, then gold on cells that are still empty *)
GridWithGold(goldCells) ==
  [c \in Cells |->
     IF c = Deposit2Pos THEN Deposit2Mark
     ELSE IF c = Deposit1Pos THEN Deposit1Mark
     ELSE IF c \in goldCells THEN 1 ELSE 0]

(* Grid.num_gold = count_nonzero(grid == 1) *)
CountGold(g) == Cardinality({c \in Cells : g[c] = 1})

(* ---------------------------------------------------------------------- *)
(* robot.py: geometry                                                      *)
(* ---------------------------------------------------------------------- *)
(* dir_map of get_visible_positions and execute_action *)
dir_map(d) ==
  CASE d = "N" -> <<0 - 1, 0>>
    [] d = "S" -> <<1, 0>>
    [] d = "E" -> <<0, 1>>
    [] OTHER   -> <<0, 0 - 1>>

(* Robot.get_deposit_pos *)
get_deposit_pos(group) == IF group = 1 THEN Deposit1Pos ELSE Deposit2Pos

(* Robot._is_valid_pos *)
is_valid_pos(pos) == 0 <= pos[1] /\ pos[1] < GridSize /\ 0 <= pos[2] /\ pos[2] < GridSize

(* keep the elements of a sequence of positions that are valid, in order *)
RECURSIVE FilterValid(_)
FilterValid(ps) ==
  IF ps = <<>> THEN <<>>
  ELSE (IF is_valid_pos(Head(ps)) THEN <<Head(ps)>> ELSE <<>>) \o FilterValid(Tail(ps))

(* Robot.get_visible_positions: 3 cells in front, then 5 cells one row further *)
get_visible_positions(pos, d) ==
  LET dx == dir_map(d)[1]
      dy == dir_map(d)[2]
      px == IF d \in {"N", "S"} THEN 0 ELSE 1
      py == IF d \in {"N", "S"} THEN 1 ELSE 0
      fx == pos[1] + dx
      fy == pos[2] + dy
      f2x == fx + dx
      f2y == fy + dy
      front == << <<fx - px, fy - py>>, <<fx, fy>>, <<fx + px, fy + py>> >>
      second == [k \in 1 .. 5 |-> <<f2x + (k - 3) * px, f2y + (k - 3) * py>>]
  IN FilterValid(front \o second)

(* Simulation.run lines 40-45: the cells handed to update() *)
VisibleCellSet(pos, d) ==
  {get_visible_positions(pos, d)[k] : k \in 1 .. Len(get_visible_positions(pos, d))} \cup {pos}

(* Robot.observe: visible positions whose cell equals 1, in scan order *)
RECURSIVE GoldOf(_, _)
GoldOf(g, ps) ==
  IF ps = <<>> THEN <<>>
  ELSE (IF get_cell(g, Head(ps)) = 1 THEN <<Head(ps)>> ELSE <<>>) \o GoldOf(g, Tail(ps))
observe(g, pos, d) == GoldOf(g, get_visible_positions(pos, d))

(* index of a direction in ['N', 'E', 'S', 'W'] *)
DirIdx(d) ==
  CASE d = "N" -> 0
    [] d = "E" -> 1
    [] d = "S" -> 2
    [] OTHER   -> 3

(* Robot._should_turn_left *)
should_turn_left(cur, target) ==
  LET left_turns == (DirIdx(cur) - DirIdx(target)) % 4
      right_turns == (DirIdx(target) - DirIdx(cur)) % 4
  IN left_turns <= right_turns

(* the facing _get_move_action_towards wants *)
DesiredDir(pos, target) ==
  LET dx == target[1] - pos[1]
      dy == target[2] - pos[2]
  IN IF Abs(dx) > Abs(dy)
     THEN (IF dx > 0 THEN "S" ELSE "N")
     ELSE (IF dy > 0 THEN "E" ELSE "W")

(* _get_move_action_towards that takes the row axis when the deltas tie *)
get_move_action_towards_RowOnTies(pos, d, target) ==
  LET dx == target[1] - pos[1]
      dy == target[2] - pos[2]
      desired == IF Abs(dx) >= Abs(dy)
                 THEN (IF dx > 0 THEN "S" ELSE "N")
                 ELSE (IF dy > 0 THEN "E" ELSE "W")
  IN IF d # desired
     THEN (IF should_turn_left(d, desired) THEN "turn_left" ELSE "turn_right")
     ELSE "move"

(* Robot._get_move_action_towards *)
get_move_action_towards(pos, d, target) ==
  LET desired == DesiredDir(pos, target)
  IN IF d # desired
     THEN (IF should_turn_left(d, desired) THEN "turn_left" ELSE "turn_right")
     ELSE "move"

(* first element of a non-empty sequence of positions that is closest to pos *)
RECURSIVE ArgMinDist(_, _, _)
ArgMinDist(ps, pos, best) ==
  IF ps = <<>> THEN best
  ELSE ArgMinDist(Tail(ps), pos,
                  IF Manhattan(Head(ps), pos) < Manhattan(best, pos) THEN Head(ps) ELSE best)

(* Robot._get_opposite_position *)
get_opposite_position(pos, gold_pos) ==
  LET gx == gold_pos[1]
      gy == gold_pos[2]
      candidates == << <<gx + 1, gy>>, <<gx - 1, gy>>, <<gx, gy + 1>>, <<gx, gy - 1>> >>
      valid_candidates == FilterValid(candidates)
  IN IF valid_candidates # <<>>
     THEN ArgMinDist(Tail(valid_candidates), pos, Head(valid_candidates))
     ELSE gold_pos

(* a left turn that goes round clockwise *)
TurnLeftDir_Clockwise(d) ==
  CASE d = "N" -> "E"
    [] d = "E" -> "S"
    [] d = "S" -> "W"
    [] OTHER   -> "N"

(* the turn tables of Robot.execute_action *)
TurnLeftDir(d) ==
  CASE d = "N" -> "W"
    [] d = "W" -> "S"
    [] d = "S" -> "E"
    [] OTHER   -> "N"
TurnRightDir(d) ==
  CASE d = "N" -> "E"
    [] d = "E" -> "S"
    [] d = "S" -> "W"
    [] OTHER   -> "N"

(* execute_action that moves without looking at the grid's edge *)
execute_action_NoBoundsCheck(r, action) ==
  IF action = "move"
  THEN [r EXCEPT !.position = <<r.position[1] + dir_map(r.direction)[1],
                                r.position[2] + dir_map(r.direction)[2]>>]
  ELSE IF action = "turn_left" THEN [r EXCEPT !.direction = TurnLeftDir(r.direction)]
  ELSE IF action = "turn_right" THEN [r EXCEPT !.direction = TurnRightDir(r.direction)]
  ELSE r

(* Robot.execute_action on a robot record *)
execute_action(r, action) ==
  IF action = "move"
  THEN LET new_pos == <<r.position[1] + dir_map(r.direction)[1],
                        r.position[2] + dir_map(r.direction)[2]>>
       IN IF is_valid_pos(new_pos) THEN [r EXCEPT !.position = new_pos] ELSE r
  ELSE IF action = "turn_left" THEN [r EXCEPT !.direction = TurnLeftDir(r.direction)]
  ELSE IF action = "turn_right" THEN [r EXCEPT !.direction = TurnRightDir(r.direction)]
  ELSE r


(* ---------------------------------------------------------------------- *)
(* robot.py: the robot record and its messages                             *)
(* ---------------------------------------------------------------------- *)
(* a message dict; the keys a message type does not carry hold NoId/NoPos/"" *)
Msg(type, sender, bcast, rcpt, finder, helper, idx, gpos, fpos, st, role, pos) ==
  [type |-> type, sender_id |-> sender, broadcast |-> bcast, recipient_id |-> rcpt,
   finder_id |-> finder, helper_id |-> helper, index |-> idx,
   gold_pos |-> gpos, finder_pos |-> fpos,
   state |-> st, role |-> role, position |-> pos]

(* robot.py 126-135 *)
ResponseMsg(id, finder, idx) ==
  Msg("response", id, FALSE, finder, finder, id, idx, NoPos, NoPos, "", "", NoPos)
(* robot.py 152-161 *)
AckMsg(id, helper, idx) ==
  Msg("ack", id, FALSE, helper, id, helper, idx, NoPos, NoPos, "", "", NoPos)
(* robot.py 365-374 *)
HereMsg(id, finder, idx) ==
  Msg("here", id, FALSE, finder, finder, id, idx, NoPos, NoPos, "", "", NoPos)
(* robot.py 319-328 and 336-345 *)
Ack2Msg(id, helper, idx) ==
  Msg("ack2", id, FALSE, helper, id, helper, idx, NoPos, NoPos, "", "", NoPos)
(* Robot._send_found_message *)
FoundMsg(id, idx, gpos, fpos) ==
  Msg("found", id, TRUE, NoId, id, NoId, idx, gpos, fpos, "", "", NoPos)
(* Robot._broadcast_my_state *)
StateMsg(id, st, role, pos) ==
  Msg("state_update", id, TRUE, NoId, NoId, NoId, NoId, NoPos, NoPos, st, role, pos)

(* an entry of teammate_states; known = FALSE when the key is absent *)
NoTeammateState == [known |-> FALSE, state |-> "", role |-> "", position |-> NoPos]

(* Robot.__init__ *)
NewRobot(id, pos, d) ==
  [position |-> pos, direction |-> d,
   state |-> "exploring", holding_gold |-> FALSE, carrying_with |-> NoId,
   target_gold_pos |-> NoPos, next_action |-> "None",
   role |-> "exploring", message_index |-> 0,
   finder_id |-> NoId, helper_id |-> NoId, current_message_index |-> NoId,
   timeout_counter |-> 0, wait_timer |-> 0, pickup_timer |-> 0,
   message_inbox |-> <<>>, message_outbox |-> <<>>,
   teammate_states |-> [t \in {} |-> NoTeammateState]]

(* Robot._reset_to_exploring *)
reset_to_exploring(r) ==
  [r EXCEPT !.role = "exploring", !.state = "exploring",
            !.finder_id = NoId, !.helper_id = NoId, !.carrying_with = NoId,
            !.target_gold_pos = NoPos, !.current_message_index = NoId,
            !.timeout_counter = 0, !.wait_timer = 0, !.pickup_timer = 0]

(* _sense_physical_gold_state that only clears holding_gold when the unit is gone *)
sense_physical_gold_state_NoReset(r, physical_holding_gold) ==
  IF physical_holding_gold /\ ~r.holding_gold
  THEN [r EXCEPT !.holding_gold = TRUE]
  ELSE IF ~physical_holding_gold /\ r.holding_gold
  THEN [r EXCEPT !.holding_gold = FALSE]
  ELSE r

(* _sense_physical_gold_state in which only a finder notices the pickup *)
sense_physical_gold_state_FinderOnly(r, physical_holding_gold) ==
  IF physical_holding_gold /\ ~r.holding_gold /\ r.role = "finder"
  THEN [r EXCEPT !.holding_gold = TRUE]
  ELSE IF ~physical_holding_gold /\ r.holding_gold
  THEN reset_to_exploring([r EXCEPT !.holding_gold = FALSE, !.carrying_with = NoId,
                                    !.target_gold_pos = NoPos])
  ELSE r

(* Robot._sense_physical_gold_state *)
sense_physical_gold_state(r, physical_holding_gold) ==
  IF physical_holding_gold /\ ~r.holding_gold
  THEN [r EXCEPT !.holding_gold = TRUE]
  ELSE IF ~physical_holding_gold /\ r.holding_gold
  THEN reset_to_exploring([r EXCEPT !.holding_gold = FALSE, !.carrying_with = NoId,
                                    !.target_gold_pos = NoPos])
  ELSE r

(* process_messages lines 112-114 *)
OnStateUpdate(id, r, msg) ==
  [r EXCEPT !.teammate_states =
     [t \in DOMAIN r.teammate_states \cup {msg.sender_id} |->
        IF t = msg.sender_id
        THEN [known |-> TRUE, state |-> msg.state, role |-> msg.role,
              position |-> msg.position]
        ELSE r.teammate_states[t]]]

(* process_messages lines 117-140 *)
OnFound(id, r, msg) ==
  IF r.role = "exploring" /\ r.state = "exploring"
  THEN [r EXCEPT !.message_outbox = Append(@, ResponseMsg(id, msg.finder_id, msg.index)),
                 !.state = "helper_waiting_ack", !.role = "helper",
                 !.finder_id = msg.finder_id, !.target_gold_pos = msg.gold_pos,
                 !.current_message_index = msg.index]
  ELSE r

(* OnResponse that accepts a response whatever its index *)
OnResponse_AnyIndex(id, r, msg) ==
  IF r.role = "finder" /\ r.state = "finder_waiting_response"
  THEN [r EXCEPT !.helper_id = msg.helper_id, !.carrying_with = msg.helper_id,
                 !.message_outbox = Append(@, AckMsg(id, msg.helper_id, msg.index)),
                 !.state = "finder_waiting_here", !.timeout_counter = 0]
  ELSE r

(* OnResponse that accepts a response with the right index in any finder state *)
OnResponse_AnyState(id, r, msg) ==
  IF r.role = "finder" /\ msg.index = r.current_message_index
  THEN [r EXCEPT !.helper_id = msg.helper_id, !.carrying_with = msg.helper_id,
                 !.message_outbox = Append(@, AckMsg(id, msg.helper_id, msg.index)),
                 !.state = "finder_waiting_here", !.timeout_counter = 0]
  ELSE r

(* process_messages lines 142-163 *)
OnResponse(id, r, msg) ==
  IF r.role = "finder" /\ r.state = "finder_waiting_response"
     /\ msg.index = r.current_message_index
  THEN [r EXCEPT !.helper_id = msg.helper_id, !.carrying_with = msg.helper_id,
                 !.message_outbox = Append(@, AckMsg(id, msg.helper_id, msg.index)),
                 !.state = "finder_waiting_here", !.timeout_counter = 0]
  ELSE r

(* process_messages lines 165-182 *)
OnAck(id, r, msg) ==
  IF r.role = "helper" /\ r.state = "helper_waiting_ack"
  THEN IF msg.helper_id = id /\ msg.index = r.current_message_index
       THEN [r EXCEPT !.carrying_with = r.finder_id,
                      !.state = "helper_moving_opposite", !.timeout_counter = 0]
       ELSE IF msg.index = r.current_message_index
       THEN [r EXCEPT !.role = "exploring", !.state = "exploring",
                      !.finder_id = NoId, !.target_gold_pos = NoPos,
                      !.current_message_index = NoId]
       ELSE r
  ELSE r

(* process_messages lines 184-192 *)
OnHere(id, r, msg) ==
  IF r.role = "finder" /\ r.state = "finder_waiting_here"
     /\ msg.helper_id = r.helper_id /\ msg.index = r.current_message_index
  THEN [r EXCEPT !.state = "finder_ready", !.timeout_counter = 0]
  ELSE r

(* process_messages lines 194-201 *)
OnAck2(id, r, msg) ==
  IF r.role = "helper" /\ r.state = "helper_waiting_ack2"
     /\ msg.index = r.current_message_index
  THEN [r EXCEPT !.state = "moving_to_gold", !.timeout_counter = 0]
  ELSE r

(* Robot.process_messages: the effect of one inbox message on robot id *)
ProcessOne(id, r, msg) ==
  CASE msg.type = "state_update" -> OnStateUpdate(id, r, msg)
    [] msg.type = "found" -> OnFound(id, r, msg)
    [] msg.type = "response" -> OnResponse(id, r, msg)
    [] msg.type = "ack" -> OnAck(id, r, msg)
    [] msg.type = "here" -> OnHere(id, r, msg)
    [] msg.type = "ack2" -> OnAck2(id, r, msg)
    [] OTHER -> r

RECURSIVE ProcessInbox(_, _, _)
ProcessInbox(id, r, inbox) ==
  IF inbox = <<>> THEN r
  ELSE ProcessInbox(id, ProcessOne(id, r, Head(inbox)), Tail(inbox))

(* Robot.process_messages *)
process_messages(id, r) ==
  [ProcessInbox(id, r, r.message_inbox) EXCEPT !.message_inbox = <<>>]


(* ---------------------------------------------------------------------- *)
(* robot.py: decide_action and update                                      *)
(* ---------------------------------------------------------------------- *)
Act(r, action) == [r |-> r, action |-> action]

(* decide_action reaches the random walk of lines 404-407 *)
UsesRandom(r, observed_gold) ==
  r.state = "exploring" /\ ~(observed_gold # <<>> /\ r.role = "exploring")

(* DecideCarrying in which the helper waits for the finder to lead *)
DecideCarrying_HelperFollows(id, r) ==
  IF r.position = get_deposit_pos(GroupOf(id))
  THEN Act([r EXCEPT !.state = "at_deposit", !.wait_timer = 0], "idle")
  ELSE IF id > r.carrying_with THEN Act(r, "idle")
  ELSE Act(r, get_move_action_towards(r.position, r.direction, get_deposit_pos(GroupOf(id))))

(* decide_action lines 208-218 *)
DecideCarrying(id, r) ==
  IF r.position = get_deposit_pos(GroupOf(id))
  THEN Act([r EXCEPT !.state = "at_deposit", !.wait_timer = 0], "idle")
  ELSE Act(r, get_move_action_towards(r.position, r.direction, get_deposit_pos(GroupOf(id))))

(* decide_action lines 220-233 *)
DecideAtDeposit(r) ==
  IF ~r.holding_gold THEN Act(r, "idle")
  ELSE IF r.wait_timer + 1 > DepositTimeout
  THEN Act(reset_to_exploring([r EXCEPT !.wait_timer = @ + 1]), "idle")
  ELSE Act([r EXCEPT !.wait_timer = @ + 1], "idle")

(* DecideReadyToPickup that never gives up asking *)
DecideReadyToPickup_NoTimeout(r) ==
  IF r.holding_gold
  THEN Act([r EXCEPT !.state = "carrying_gold", !.pickup_timer = 0], "idle")
  ELSE Act([r EXCEPT !.pickup_timer = @ + 1], "pickup")

(* decide_action lines 235-250 *)
DecideReadyToPickup(r) ==
  IF r.holding_gold
  THEN Act([r EXCEPT !.state = "carrying_gold", !.pickup_timer = 0], "idle")
  ELSE IF r.pickup_timer + 1 > PickupTimeout
  THEN Act(reset_to_exploring([r EXCEPT !.pickup_timer = @ + 1]), "idle")
  ELSE Act([r EXCEPT !.pickup_timer = @ + 1], "pickup")

(* lines 255-260: the cached state of the partner shows it on this cell, waiting *)
PartnerSeenHere(r) ==
  /\ r.carrying_with \in DOMAIN r.teammate_states
  /\ r.teammate_states[r.carrying_with].position = r.position
  /\ r.teammate_states[r.carrying_with].state \in {"waiting_at_gold", "ready_to_pickup"}

(* DecideWaitingAtGold that never gives up waiting *)
DecideWaitingAtGold_NoTimeout(r, g) ==
  IF PartnerSeenHere(r)
  THEN Act([r EXCEPT !.state = "ready_to_pickup", !.pickup_timer = 0], "idle")
  ELSE IF ~(get_cell(g, r.position) > 0)
  THEN Act(reset_to_exploring(r), "idle")
  ELSE Act([r EXCEPT !.wait_timer = @ + 1], "idle")

(* decide_action lines 252-279 *)
DecideWaitingAtGold(r, g) ==
  IF PartnerSeenHere(r)
  THEN Act([r EXCEPT !.state = "ready_to_pickup", !.pickup_timer = 0], "idle")
  ELSE IF ~(get_cell(g, r.position) > 0)
  THEN Act(reset_to_exploring(r), "idle")
  ELSE IF r.wait_timer + 1 > WaitAtGoldTimeout
  THEN Act(reset_to_exploring([r EXCEPT !.wait_timer = @ + 1]), "idle")
  ELSE Act([r EXCEPT !.wait_timer = @ + 1], "idle")

(* decide_action lines 281-295 *)
DecideMovingToGold(r, g) ==
  IF r.position = r.target_gold_pos
  THEN Act([r EXCEPT !.state = "waiting_at_gold", !.wait_timer = 0], "idle")
  ELSE IF r.target_gold_pos \in VisibleCellSet(r.position, r.direction)
          /\ ~(get_cell(g, r.target_gold_pos) > 0)
  THEN Act(reset_to_exploring(r), "idle")
  ELSE Act(r, get_move_action_towards(r.position, r.direction, r.target_gold_pos))

(* decide_action lines 298-305 *)
DecideFinderWaitingResponse(id, r) ==
  IF r.timeout_counter + 1 > max_timeout
  THEN Act([r EXCEPT !.message_outbox =
              Append(@, FoundMsg(id, r.current_message_index, r.target_gold_pos, r.position)),
                     !.timeout_counter = 0], "idle")
  ELSE Act([r EXCEPT !.timeout_counter = @ + 1], "idle")

(* DecideProtocolWait that gives up one tick late *)
DecideProtocolWait_Late(r) ==
  IF r.timeout_counter + 1 > max_timeout + 1
  THEN Act(reset_to_exploring([r EXCEPT !.timeout_counter = @ + 1]), "idle")
  ELSE Act([r EXCEPT !.timeout_counter = @ + 1], "idle")

(* DecideProtocolWait whose timeout leaves the robot waiting *)
DecideProtocolWait_NoReset(r) ==
  IF r.timeout_counter + 1 > max_timeout
  THEN Act([r EXCEPT !.timeout_counter = 0], "idle")
  ELSE Act([r EXCEPT !.timeout_counter = @ + 1], "idle")

(* decide_action lines 307-313, 350-356 and 382-388: the three protocol waits
   that give up *)
DecideProtocolWait(r) ==
  IF r.timeout_counter + 1 > max_timeout
  THEN Act(reset_to_exploring([r EXCEPT !.timeout_counter = @ + 1]), "idle")
  ELSE Act([r EXCEPT !.timeout_counter = @ + 1], "idle")

(* decide_action lines 315-347 *)
DecideFinderReady(id, r) ==
  IF r.position = r.target_gold_pos
  THEN Act([r EXCEPT !.message_outbox =
              Append(@, Ack2Msg(id, r.helper_id, r.current_message_index)),
                     !.state = "moving_to_gold"], "idle")
  ELSE LET action == get_move_action_towards(r.position, r.direction, r.target_gold_pos)
       IN IF action = "move"
          THEN Act([r EXCEPT !.message_outbox =
                      Append(@, Ack2Msg(id, r.helper_id, r.current_message_index)),
                             !.state = "moving_to_gold"], action)
          ELSE Act(r, action)

(* DecideHelperMovingOpposite that heads for the unit without the rendezvous *)
DecideHelperMovingOpposite_NoRendezvous(id, r) ==
  Act([r EXCEPT !.state = "moving_to_gold"], "idle")

(* decide_action lines 358-380 *)
DecideHelperMovingOpposite(id, r) ==
  IF r.target_gold_pos # NoPos
  THEN LET opposite_pos == get_opposite_position(r.position, r.target_gold_pos)
       IN IF r.position = opposite_pos
          THEN Act([r EXCEPT !.message_outbox =
                      Append(@, HereMsg(id, r.finder_id, r.current_message_index)),
                             !.state = "helper_waiting_ack2",
                             !.timeout_counter = 0], "idle")
          ELSE Act(r, get_move_action_towards(r.position, r.direction, opposite_pos))
  ELSE Act(r, "idle")

(* decide_action lines 390-407 *)
DecideExploring(id, r, observed_gold, rnd) ==
  IF observed_gold # <<>> /\ r.role = "exploring"
  THEN Act([r EXCEPT !.role = "finder", !.target_gold_pos = observed_gold[1],
                     !.message_index = @ + 1,
                     !.current_message_index = r.message_index + 1,
                     !.message_outbox =
                        Append(@, FoundMsg(id, r.message_index + 1, observed_gold[1],
                                           r.position)),
                     !.state = "finder_waiting_response",
                     !.timeout_counter = 0], "idle")
  ELSE Act(r, rnd)

(* Robot.decide_action; g is the grid behind visible_cells, rnd the outcome of
   the random walk, used only when UsesRandom holds *)
decide_action(id, r, g, observed_gold, rnd) ==
  IF r.state = "carrying_gold" /\ r.holding_gold THEN DecideCarrying(id, r)
  ELSE IF r.state = "at_deposit" THEN DecideAtDeposit(r)
  ELSE IF r.state = "ready_to_pickup" THEN DecideReadyToPickup(r)
  ELSE IF r.state = "waiting_at_gold" THEN DecideWaitingAtGold(r, g)
  ELSE IF r.state = "moving_to_gold" /\ r.target_gold_pos # NoPos THEN DecideMovingToGold(r, g)
  ELSE IF r.state = "finder_waiting_response" THEN DecideFinderWaitingResponse(id, r)
  ELSE IF r.state = "finder_waiting_here" THEN DecideProtocolWait(r)
  ELSE IF r.state = "finder_ready" THEN DecideFinderReady(id, r)
  ELSE IF r.state = "helper_waiting_ack" THEN DecideProtocolWait(r)
  ELSE IF r.state = "helper_moving_opposite" THEN DecideHelperMovingOpposite(id, r)
  ELSE IF r.state = "helper_waiting_ack2" THEN DecideProtocolWait(r)
  ELSE IF r.state = "exploring" THEN DecideExploring(id, r, observed_gold, rnd)
  ELSE Act(r, "idle")

(* Robot.update.  observed_gold is rebuilt by observe() at the start of every
   update and read only by that update's decide_action, so it is a local here *)
update(id, r, g, physical_holding_gold, rnd) ==
  LET observed_gold == observe(g, r.position, r.direction)
      sensed == sense_physical_gold_state(r, physical_holding_gold)
      read == process_messages(id, sensed)
      decided == decide_action(id, read, g, observed_gold, rnd)
  IN [decided.r EXCEPT
        !.next_action = decided.action,
        !.message_outbox = Append(@, StateMsg(id, decided.r.state, decided.r.role,
                                              decided.r.position))]

(* the outcomes of the random walk an update can see; drawn is what the random
   module can yield for this draw.  An update that does not reach the random
   walk draws nothing, and "move" stands for that *)
RandomOutcomes(id, r, g, physical_holding_gold, drawn) ==
  IF UsesRandom(process_messages(id, sense_physical_gold_state(r, physical_holding_gold)),
                observe(g, r.position, r.direction))
  THEN drawn
  ELSE {"move"}


(* robot.py lines 405-406: random.random() < 0.2 picks a turn, and then
   random.choice its side; otherwise the robot moves.  The module's generator
   is never seeded by the program, so a run can see any stream of draws:
   stream "any".  Stream "crowd_walk" is one such stream, written as the
   outcome of the draw of robot id in step t: the turns below, and a move
   everywhere else *)
crowd_walk(t, id) ==
  CASE id = 0 /\ t \in {21, 23}     -> "turn_right"
    [] id = 1 /\ t \in {21, 22, 23} -> "turn_left"
    [] id = 2 /\ t \in {0, 1}       -> "turn_left"
    [] id = 2 /\ t = 35             -> "turn_right"
    [] id = 3 /\ t = 36             -> "turn_left"
    [] OTHER                        -> "move"
random_walk(stream, t, id) ==
  IF stream = "crowd_walk" THEN {crowd_walk(t, id)}
  ELSE {"turn_left", "turn_right", "move"}

(* simulation.py line 113: random.randint over message_delay_range, likewise
   unseeded.  Stream "late_ack" is one stream of draws: the maximum for every
   ack and the minimum for every other message; its random walk is free *)
random_delay(stream, range, msg) ==
  IF stream = "late_ack"
  THEN {IF msg.type = "ack" THEN range[2] ELSE range[1]}
  ELSE range[1] .. range[2]


(* ---------------------------------------------------------------------- *)
(* simulation.py: state                                                    *)
(* ---------------------------------------------------------------------- *)
VARIABLES
  grid,                   \* Grid.grid
  num_gold,               \* Grid.num_gold
  robots,                 \* the Robot objects of group1 + group2, by id
  scores,                 \* Simulation.scores
  pickup_counts,          \* Simulation.pickup_counts
  delayed_messages,       \* Simulation.delayed_messages
  current_step,           \* Simulation.current_step
  step,                   \* the local step of Simulation.run
  physical_gold_carriers, \* Simulation.physical_gold_carriers: pair -> pickup position
  message_delay_range,    \* Simulation.message_delay_range
  random_stream,          \* which streams the random module may yield (robot.py 405-406)
  steps,                  \* Simulation.steps
  pc                      \* where Simulation.run is inside its loop body

vars == <<grid, num_gold, robots, scores, pickup_counts, delayed_messages, current_step,
          step, physical_gold_carriers, message_delay_range, random_stream, steps, pc>>

(* all_robots = group1 + group2 of run line 33 *)
RobotIds == DOMAIN robots
all_robots == SortedSeq({id \in RobotIds : GroupOf(id) = 1})
              \o SortedSeq({id \in RobotIds : GroupOf(id) = 2})

(* Simulation._is_robot_physically_carrying *)
is_robot_physically_carrying(carriers, id) == \E pair \in DOMAIN carriers : id \in pair

(* lines 124-133: pickup_attempts[pos][group], the robots of the group at pos
   whose action is pickup and that are not holding, in all_robots order *)
RECURSIVE pickup_attempts(_, _, _, _)
pickup_attempts(seq, rs, pos, group) ==
  IF seq = <<>> THEN <<>>
  ELSE (IF rs[Head(seq)].next_action = "pickup" /\ ~rs[Head(seq)].holding_gold
           /\ rs[Head(seq)].position = pos /\ GroupOf(Head(seq)) = group
        THEN <<Head(seq)>> ELSE <<>>)
       \o pickup_attempts(Tail(seq), rs, pos, group)

(* PickupSucceeds without the final gold_available > 0 test *)
PickupSucceeds_NoGoldTest(n_self, n_other, gold) ==
  /\ n_self = 2
  /\ ~(n_other = 2 /\ ~(gold >= 2) /\ gold = 1)

(* PickupSucceeds without the conflict branch of line 148 *)
PickupSucceeds_NoConflictRule(n_self, n_other, gold) ==
  /\ n_self = 2
  /\ (IF n_other = 2 /\ gold >= 2 THEN 2 ELSE gold) > 0

(* lines 138-152: does the group with n_self attempts at a cell holding
   gold units pick up, given n_other attempts of the other group *)
PickupSucceeds(n_self, n_other, gold) ==
  /\ n_self = 2
  /\ ~(n_other = 2 /\ ~(gold >= 2) /\ gold = 1)
  /\ (IF n_other = 2 /\ gold >= 2 THEN 2 ELSE gold) > 0

(* lines 136-137: the groups of a cell are visited in the order their first
   robot appears in all_robots, group 1 before group 2; the second visit reads
   the cell after the first.  att[t] is pickup_attempts[pos][t] *)
GroupPicks(att, gold, group) ==
  LET first == PickupSucceeds(Len(att[1]), Len(att[2]), gold)
  IN IF group = 1 THEN first
     ELSE PickupSucceeds(Len(att[2]), Len(att[1]), IF first THEN gold - 1 ELSE gold)

(* NewPickups that records the first robot of the cell as its own partner *)
NewPickups_SelfPair(rs, g) ==
  LET order == all_robots
      tried == {rs[id].position : id \in {i \in DOMAIN rs : rs[i].next_action = "pickup"}}
      att == [pos \in tried |-> [t \in {1, 2} |-> pickup_attempts(order, rs, pos, t)]]
  IN {[pair |-> {att[pg[1]][pg[2]][1]},
       pos |-> pg[1], group |-> pg[2]] :
        pg \in {x \in tried \X {1, 2} : GroupPicks(att[x[1]], g[x[1]], x[2])}}

(* the pairs that pick up in this call, as records *)
NewPickups(rs, g) ==
  LET order == all_robots
      tried == {rs[id].position : id \in {i \in DOMAIN rs : rs[i].next_action = "pickup"}}
      att == [pos \in tried |-> [t \in {1, 2} |-> pickup_attempts(order, rs, pos, t)]]
  IN {[pair |-> {att[pg[1]][pg[2]][1], att[pg[1]][pg[2]][2]},
       pos |-> pg[1], group |-> pg[2]] :
        pg \in {x \in tried \X {1, 2} : GroupPicks(att[x[1]], g[x[1]], x[2])}}

(* GridAfterPickups in which a pickup takes two units off the cell *)
GridAfterPickups_TakesTwo(np, g) ==
  [c \in Cells |-> g[c] - 2 * Cardinality({n \in np : n.pos = c})]

(* lines 136-162: grid, pickup_counts and physical_gold_carriers after the
   pickups np of this call *)
GridAfterPickups(np, g) ==
  [c \in Cells |-> g[c] - Cardinality({n \in np : n.pos = c})]
CountsAfterPickups(np, counts) ==
  [t \in {1, 2} |-> counts[t] + Cardinality({n \in np : n.group = t})]
CarriersAfterPickups(np, carriers) ==
  [p \in DOMAIN carriers \cup {n.pair : n \in np} |->
     IF \E n \in np : n.pair = p
     THEN (CHOOSE n \in np : n.pair = p).pos
     ELSE carriers[p]]

(* RobotsAfterMovement in which a robot that asked for a pickup steps ahead *)
RobotsAfterMovement_PickersMove(rs) ==
  [id \in RobotIds |->
     IF rs[id].next_action = "pickup" THEN execute_action(rs[id], "move")
     ELSE IF rs[id].next_action # "idle"
     THEN execute_action(rs[id], rs[id].next_action) ELSE rs[id]]

(* lines 164-171: every robot whose action is neither pickup nor idle executes it *)
RobotsAfterMovement(rs) ==
  [id \in RobotIds |->
     IF rs[id].next_action \notin {"pickup", "idle"}
     THEN execute_action(rs[id], rs[id].next_action) ELSE rs[id]]

(* robot_ids[0] of list(robot_pair): CPython walks a frozenset of small ints in
   hash order, which is increasing order for the ids used here *)
FirstOf(pair) == CHOOSE a \in pair : \A b \in pair : a <= b
SecondOf(pair) == CHOOSE b \in pair : \A a \in pair : a <= b

(* pairs_to_drop that lets a separated pair keep its unit *)
pairs_to_drop_Never(moved, carriers) == {}

(* lines 173-200: the pairs whose robots are at different cells after movement *)
pairs_to_drop(moved, carriers) ==
  {p \in DOMAIN carriers : moved[FirstOf(p)].position # moved[SecondOf(p)].position}

(* GridAfterDrops that forgets to put the unit back *)
GridAfterDrops_Lost(rs, dropped, g) == g

(* line 194 and 198: the cell set to 1 is robot1's position before movement *)
GridAfterDrops(rs, dropped, g) ==
  [c \in Cells |->
     IF \E p \in dropped : rs[FirstOf(p)].position = c THEN 1 ELSE g[c]]

(* pairs_to_deposit that takes any cell the two robots share for the deposit *)
pairs_to_deposit_AnyCell(moved, carriers, dropped) == DOMAIN carriers \ dropped

(* lines 206-220: of the pairs still carrying, those with both robots on
   robot1's deposit cell *)
pairs_to_deposit(moved, carriers, dropped) ==
  {p \in DOMAIN carriers \ dropped :
     /\ moved[FirstOf(p)].position = get_deposit_pos(GroupOf(FirstOf(p)))
     /\ moved[SecondOf(p)].position = get_deposit_pos(GroupOf(FirstOf(p)))}

(* ScoresAfterDeposits that counts a delivery once for each robot of the pair *)
ScoresAfterDeposits_PerRobot(deposited, sc) ==
  [t \in {1, 2} |-> sc[t] + 2 * Cardinality({p \in deposited : GroupOf(FirstOf(p)) = t})]

(* line 217: the score of robot1's group grows by one for each depositing pair *)
ScoresAfterDeposits(deposited, sc) ==
  [t \in {1, 2} |-> sc[t] + Cardinality({p \in deposited : GroupOf(FirstOf(p)) = t})]

Restrict(f, S) == [x \in S |-> f[x]]


(* ---------------------------------------------------------------------- *)
(* simulation.py: the steps of Simulation.run                              *)
(* ---------------------------------------------------------------------- *)
(* Receives that lets a broadcast cross to the other team *)
Receives_AnyTeam(id, msg) ==
  IF msg.broadcast
  THEN id # msg.sender_id
  ELSE id = msg.recipient_id

(* does all_robots member id get msg appended to its inbox (lines 93-99) *)
Receives(id, msg) ==
  IF msg.broadcast
  THEN msg.sender_id \in RobotIds /\ GroupOf(id) = GroupOf(msg.sender_id) /\ id # msg.sender_id
  ELSE id = msg.recipient_id

(* DueMsgs that also hands over what is due one tick later *)
RECURSIVE DueMsgs_Early(_, _)
DueMsgs_Early(dm, now) ==
  IF dm = <<>> THEN <<>>
  ELSE (IF Head(dm).delivery_step <= now + 1 THEN <<Head(dm).msg>> ELSE <<>>)
       \o DueMsgs_Early(Tail(dm), now)

RECURSIVE DueMsgs(_, _)
DueMsgs(dm, now) ==
  IF dm = <<>> THEN <<>>
  ELSE (IF Head(dm).delivery_step <= now THEN <<Head(dm).msg>> ELSE <<>>)
       \o DueMsgs(Tail(dm), now)

(* NotDue that keeps every entry pending *)
NotDue_KeepAll(dm, now) == dm

RECURSIVE NotDue(_, _)
NotDue(dm, now) ==
  IF dm = <<>> THEN <<>>
  ELSE (IF Head(dm).delivery_step <= now THEN <<>> ELSE <<Head(dm)>>) \o NotDue(Tail(dm), now)

RECURSIVE InboxAdditions(_, _)
InboxAdditions(id, msgs) ==
  IF msgs = <<>> THEN <<>>
  ELSE (IF Receives(id, Head(msgs)) THEN <<Head(msgs)>> ELSE <<>>)
       \o InboxAdditions(id, Tail(msgs))

(* run lines 29-30 and 35, Simulation._process_delayed_messages *)
ProcessDelayedMessages ==
  /\ pc = "deliver"
  /\ step < steps
  /\ current_step' = step
  /\ delayed_messages' = NotDue(delayed_messages, step)
  /\ robots' = [id \in RobotIds |->
                  [robots[id] EXCEPT !.message_inbox =
                     @ \o InboxAdditions(id, DueMsgs(delayed_messages, step))]]
  /\ pc' = "send"
  /\ UNCHANGED <<grid, num_gold, scores, pickup_counts, step, steps, physical_gold_carriers,
                 message_delay_range, random_stream>>

RECURSIVE AllOutboxes(_, _)
AllOutboxes(seq, rs) ==
  IF seq = <<>> THEN <<>> ELSE rs[Head(seq)].message_outbox \o AllOutboxes(Tail(seq), rs)

(* _process_messages lines 111-115: the (delivery_step, msg) entries the
   messages can get, each message with a delay of its own *)
RECURSIVE Schedules(_, _, _, _)
Schedules(msgs, now, range, stream) ==
  IF msgs = <<>> THEN {<<>>}
  ELSE {<<[delivery_step |-> now + delay, msg |-> Head(msgs)]>> \o rest :
          delay \in random_delay(stream, range, Head(msgs)),
          rest \in Schedules(Tail(msgs), now, range, stream)}

(* run line 36, Simulation._process_messages: every collected message draws its
   own delay from message_delay_range *)
ProcessMessages ==
  /\ pc = "send"
  /\ LET messages_to_send == AllOutboxes(all_robots, robots)
     IN \E scheduled \in Schedules(messages_to_send, current_step,
                                    message_delay_range, random_stream) :
          delayed_messages' = delayed_messages \o scheduled
  /\ robots' = [id \in RobotIds |-> [robots[id] EXCEPT !.message_outbox = <<>>]]
  /\ pc' = "update"
  /\ UNCHANGED <<grid, num_gold, scores, pickup_counts, current_step, step, steps,
                 physical_gold_carriers, message_delay_range, random_stream>>

(* the random draws the updates of one tick can see, one per robot *)
RandomChoices(rs, g, carriers, stream, t) ==
  LET outs == [id \in DOMAIN rs |->
                 RandomOutcomes(id, rs[id], g, is_robot_physically_carrying(carriers, id),
                                random_walk(stream, t, id))]
  IN {rnd \in [DOMAIN rs -> {"turn_left", "turn_right", "move"}] :
        \A id \in DOMAIN rs : rnd[id] \in outs[id]}

(* update_in_turn in which the robot also reads its teammates' fields as they
   are at its turn *)
update_in_turn_SeesPeers(id, rs, g, carriers, rnd) ==
  LET own == update(id, rs[id], g, is_robot_physically_carrying(carriers, id), rnd[id])
      peers == {t \in DOMAIN rs : t # id /\ GroupOf(t) = GroupOf(id)}
  IN [rs EXCEPT ![id] =
        [own EXCEPT !.teammate_states =
           [t \in peers |-> [known |-> TRUE, state |-> rs[t].state, role |-> rs[t].role,
                             position |-> rs[t].position]]]]

(* run lines 38-50, the body of the loop: the cells robot id sees and whether
   it is carrying are read from the grid and physical_gold_carriers, and
   update() writes the robot's own fields *)
update_in_turn(id, rs, g, carriers, rnd) ==
  [rs EXCEPT ![id] =
     update(id, rs[id], g, is_robot_physically_carrying(carriers, id), rnd[id])]

(* run lines 38-50: the robots are updated one after the other in order *)
RECURSIVE update_all(_, _, _, _, _)
update_all(order, rs, g, carriers, rnd) ==
  IF order = <<>> THEN rs
  ELSE update_all(Tail(order), update_in_turn(Head(order), rs, g, carriers, rnd),
                  g, carriers, rnd)

(* run lines 38-50 *)
UpdateRobots ==
  /\ pc = "update"
  /\ \E rnd \in RandomChoices(robots, grid, physical_gold_carriers, random_stream, step) :
       robots' = update_all(all_robots, robots, grid, physical_gold_carriers, rnd)
  /\ pc' = "execute"
  /\ UNCHANGED <<grid, num_gold, scores, pickup_counts, delayed_messages, current_step,
                 step, steps, physical_gold_carriers, message_delay_range, random_stream>>

(* run line 52, Simulation._execute_actions *)
ExecuteActions ==
  /\ pc = "execute"
  /\ LET np == NewPickups(robots, grid)
         picked == CarriersAfterPickups(np, physical_gold_carriers)
         moved == RobotsAfterMovement(robots)
         dropped == pairs_to_drop(moved, picked)
         deposited == pairs_to_deposit(moved, picked, dropped)
     IN /\ pickup_counts' = CountsAfterPickups(np, pickup_counts)
        /\ robots' = moved
        /\ grid' = GridAfterDrops(robots, dropped, GridAfterPickups(np, grid))
        /\ scores' = ScoresAfterDeposits(deposited, scores)
        /\ physical_gold_carriers' = Restrict(picked, DOMAIN picked \ (dropped \cup deposited))
  /\ pc' = "check"
  /\ UNCHANGED <<num_gold, delayed_messages, current_step, step, steps,
                 message_delay_range, random_stream>>

(* EndOfStep without the end condition of line 67 *)
EndOfStep_NeverStops ==
  /\ pc = "check"
  /\ pc' = "deliver" /\ step' = step + 1
  /\ UNCHANGED <<grid, num_gold, robots, scores, pickup_counts, delayed_messages,
                 current_step, steps, physical_gold_carriers, message_delay_range, random_stream>>

(* run lines 66-74: stop when all gold is deposited, else count the step *)
EndOfStep ==
  /\ pc = "check"
  /\ IF scores[1] + scores[2] >= num_gold
     THEN pc' = "done" /\ step' = step
     ELSE pc' = "deliver" /\ step' = step + 1
  /\ UNCHANGED <<grid, num_gold, robots, scores, pickup_counts, delayed_messages,
                 current_step, steps, physical_gold_carriers, message_delay_range, random_stream>>

(* run lines 29 and 76: the step budget is used up *)
OutOfSteps ==
  /\ pc = "deliver"
  /\ ~(step < steps)
  /\ pc' = "done"
  /\ UNCHANGED <<grid, num_gold, robots, scores, pickup_counts, delayed_messages,
                 current_step, step, steps, physical_gold_carriers, message_delay_range, random_stream>>

Next ==
  \/ ProcessDelayedMessages
  \/ ProcessMessages
  \/ UpdateRobots
  \/ ExecuteActions
  \/ EndOfStep
  \/ OutOfSteps


(* ---------------------------------------------------------------------- *)
(* Construction: Grid(size, num_gold), the robots, Simulation(...)         *)
(* ---------------------------------------------------------------------- *)
(* Simulation.__init__ over a fresh grid with gold on goldCells and fresh
   robots; start maps each robot id to <<position, direction>> *)
Construct(goldCells, start, delays, stream, budget) ==
  /\ grid = GridWithGold(goldCells)
  /\ num_gold = CountGold(GridWithGold(goldCells))
  /\ robots = [id \in DOMAIN start |-> NewRobot(id, start[id][1], start[id][2])]
  /\ scores = [t \in {1, 2} |-> 0]
  /\ pickup_counts = [t \in {1, 2} |-> 0]
  /\ delayed_messages = <<>>
  /\ current_step = 0
  /\ step = 0
  /\ physical_gold_carriers = [p \in {} |-> NoPos]
  /\ message_delay_range = delays
  /\ random_stream = stream
  /\ steps = budget
  /\ pc = "deliver"

(* message_delay_range: (1, 1) up to (1, MaxDelay) *)
DelayRanges == {<<MinDelay, d>> : d \in MinDelay .. MaxDelay}

At(row, col, d) == <<<<row, col>>, d>>

(* Two robots per group around one unit in the middle of the grid, each finder
   facing the unit, each helper in its own deposit corner facing the wall *)
FaceOffStart ==
  (0 :> At(1, 0, "E")) @@ (1 :> At(0, 0, "N")) @@ (10 :> At(1, 2, "W")) @@ (11 :> At(2, 2, "S"))

(* Group 1 alone (group2 = []), as in carry_test.py and test_project.py: the
   finder faces the unit from the west, the helper stands east of it *)
CarryStart == (0 :> At(2, 0, "E")) @@ (1 :> At(2, 2, "E"))

(* Three robots of group 1 and two units in the top row: robot 0 sees (0, 1)
   from the start, robots 1 and 2 first have to turn *)
TrioStart == (0 :> At(1, 2, "N")) @@ (1 :> At(0, 0, "S")) @@ (2 :> At(1, 1, "S"))

Placements ==
  {[gold |-> g, start |-> FaceOffStart, budget |-> MaxSteps] :
      g \in {{<<1, 1>>}, {<<1, 1>>, <<2, 0>>}}}
  \cup
  {[gold |-> g, start |-> CarryStart, budget |-> MaxSteps + 2] :
      g \in {{<<2, 1>>}, {<<2, 1>>, <<0, 2>>}}}
  \cup
  {[gold |-> {<<0, 1>>, <<0, 2>>}, start |-> TrioStart, budget |-> MaxSteps - 3]}

Init ==
  \E pl \in Placements : \E delays \in DelayRanges :
    Construct(pl.gold, pl.start, delays, "any", pl.budget)

Spec == Init /\ [][Next]_vars

(* Four robots of group 1 (group2 = []) around the one unit, with delay range
   (1, 1) and the stream crowd_walk: robots 1 and 3 both see the unit in step 0 *)
CrowdSteps == 54
CrowdStart ==
  (0 :> At(0, 0, "N")) @@ (1 :> At(1, 0, "E")) @@ (2 :> At(0, 2, "E")) @@ (3 :> At(1, 2, "W"))
InitCrowd ==
  Construct({<<1, 1>>}, CrowdStart, <<MinDelay, MinDelay>>, "crowd_walk", CrowdSteps)
SpecCrowd == InitCrowd /\ [][Next]_vars


(* ---------------------------------------------------------------------- *)
(* grid.py: a caller reading and writing cells, also beyond the edges      *)
(* ---------------------------------------------------------------------- *)
(* positions up to one step outside the grid on every side *)
Probes == ((0 - 1) .. GridSize) \X ((0 - 1) .. GridSize)
CellValues == {0, 1}

(* update_cell without the test of line 33: numpy counts a negative index
   from the far edge *)
update_cell_Unchecked(g, pos, value) ==
  [g EXCEPT ![<<pos[1] % GridSize, pos[2] % GridSize>>] = value]

(* Grid.update_cell *)
update_cell(g, pos, value) ==
  IF InBounds(pos) THEN [g EXCEPT ![pos] = value] ELSE g

(* one call grid.update_cell(pos, value) *)
UpdateCell ==
  /\ \E pos \in Probes, value \in CellValues : grid' = update_cell(grid, pos, value)
  /\ UNCHANGED <<num_gold, robots, scores, pickup_counts, delayed_messages, current_step,
                 step, steps, physical_gold_carriers, message_delay_range, random_stream, pc>>

(* Grid(3, 0) and no robots *)
InitGrid ==
  Construct({}, [id \in {} |-> At(0, 0, "N")], <<MinDelay, MinDelay>>, "any", 0)
SpecGrid == InitGrid /\ [][UpdateCell]_vars


(* ---------------------------------------------------------------------- *)
(* robot.py: one robot stepping towards a target                            *)
(* ---------------------------------------------------------------------- *)
(* one robot on any cell, facing any way, with any other cell as its target *)
InitWalk ==
  /\ \E pos \in Cells, target \in Cells, d \in {"N", "E", "S", "W"} :
       /\ pos # target
       /\ robots = (0 :> [NewRobot(0, pos, d) EXCEPT !.target_gold_pos = target])
  /\ grid = GridWithGold({})
  /\ num_gold = CountGold(GridWithGold({}))
  /\ scores = [t \in {1, 2} |-> 0]
  /\ pickup_counts = [t \in {1, 2} |-> 0]
  /\ delayed_messages = <<>>
  /\ current_step = 0
  /\ step = 0
  /\ physical_gold_carriers = [p \in {} |-> NoPos]
  /\ message_delay_range = <<MinDelay, MinDelay>>
  /\ random_stream = "any"
  /\ steps = 0
  /\ pc = "deliver"

(* robot.execute_action(robot._get_move_action_towards(target)) while the
   robot is not on its target *)
StepTowards ==
  /\ \E id \in RobotIds :
       /\ robots[id].position # robots[id].target_gold_pos
       /\ LET action == get_move_action_towards(robots[id].position, robots[id].direction,
                                                robots[id].target_gold_pos)
          IN robots' = [robots EXCEPT
                          ![id] = execute_action([robots[id] EXCEPT !.next_action = action],
                                                 action)]
  /\ UNCHANGED <<grid, num_gold, scores, pickup_counts, delayed_messages, current_step,
                 step, steps, physical_gold_carriers, message_delay_range, random_stream, pc>>
SpecWalk == InitWalk /\ [][StepTowards]_vars

(* ---------------------------------------------------------------------- *)
(* robot.py and actions.py: one robot told to move and to turn              *)
(* ---------------------------------------------------------------------- *)
(* actions.move(robot, grid_size) on a robot record *)
actions_move(r) ==
  LET x == r.position[1]
      y == r.position[2]
  IN IF r.direction = "N" /\ x - 1 >= 0 THEN [r EXCEPT !.position = <<x - 1, y>>]
     ELSE IF r.direction = "S" /\ x + 1 < GridSize THEN [r EXCEPT !.position = <<x + 1, y>>]
     ELSE IF r.direction = "E" /\ y + 1 < GridSize THEN [r EXCEPT !.position = <<x, y + 1>>]
     ELSE IF r.direction = "W" /\ y - 1 >= 0 THEN [r EXCEPT !.position = <<x, y - 1>>]
     ELSE r

(* dirs of actions.turn *)
DirAt(i) ==
  CASE i = 0 -> "N"
    [] i = 1 -> "E"
    [] i = 2 -> "S"
    [] OTHER -> "W"
(* actions.turn(robot, direction) on a robot record *)
actions_turn(r, side) ==
  IF side = "left" THEN [r EXCEPT !.direction = DirAt((DirIdx(r.direction) - 1) % 4)]
  ELSE IF side = "right" THEN [r EXCEPT !.direction = DirAt((DirIdx(r.direction) + 1) % 4)]
  ELSE r

(* one robot on any cell, facing any way *)
InitMoves ==
  /\ \E pos \in Cells, d \in {"N", "E", "S", "W"} : robots = (0 :> NewRobot(0, pos, d))
  /\ grid = GridWithGold({})
  /\ num_gold = CountGold(GridWithGold({}))
  /\ scores = [t \in {1, 2} |-> 0]
  /\ pickup_counts = [t \in {1, 2} |-> 0]
  /\ delayed_messages = <<>>
  /\ current_step = 0
  /\ step = 0
  /\ physical_gold_carriers = [p \in {} |-> NoPos]
  /\ message_delay_range = <<MinDelay, MinDelay>>
  /\ random_stream = "any"
  /\ steps = 0
  /\ pc = "deliver"

MovesUnchanged ==
  UNCHANGED <<grid, num_gold, scores, pickup_counts, delayed_messages, current_step,
              step, steps, physical_gold_carriers, message_delay_range, random_stream, pc>>
(* one call robot.execute_action(action) *)
ExecuteAny ==
  /\ \E id \in RobotIds, action \in {"move", "turn_left", "turn_right", "idle", "pickup"} :
       robots' = [robots EXCEPT
                    ![id] = execute_action([robots[id] EXCEPT !.next_action = action], action)]
  /\ MovesUnchanged
(* one call actions.move(robot, grid_size) *)
ActionsMove ==
  /\ \E id \in RobotIds :
       robots' = [robots EXCEPT ![id] = actions_move([robots[id] EXCEPT !.next_action = "move"])]
  /\ MovesUnchanged
(* one call actions.turn(robot, 'left') or actions.turn(robot, 'right') *)
ActionsTurn ==
  /\ \E id \in RobotIds, side \in {"left", "right"} :
       robots' = [robots EXCEPT
                    ![id] = actions_turn([robots[id] EXCEPT !.next_action = "turn_" \o side], side)]
  /\ MovesUnchanged
NextMoves == ExecuteAny \/ ActionsMove \/ ActionsTurn
SpecMoves == InitMoves /\ [][NextMoves]_vars

(* ---------------------------------------------------------------------- *)
(* save.py: the robot of the Paxos variant                                  *)
(* ---------------------------------------------------------------------- *)
(* None where save.py holds a plan: accepted_value, current_plan *)
NoPlan == [id \in {} |-> NoId]
ProposalStride == 100

(* save.py Robot.__init__; observed_gold is rebuilt by every update and read
   only by that update, so it is not a field here *)
save_NewRobot(id, pos, d) ==
  [position |-> pos, direction |-> d,
   state |-> "idle", holding_gold |-> FALSE, carrying_with |-> NoId,
   target_gold_pos |-> NoPos, next_action |-> "None",
   proposal_number |-> 0, highest_proposal_seen |-> 0 - 1,
   accepted_proposal |-> 0 - 1, accepted_value |-> NoPlan,
   paxos_state |-> "idle", promises_received |-> {}, accepts_received |-> {},
   current_plan |-> NoPlan, proposal_backoff |-> 0, wait_timer |-> 0,
   message_inbox |-> <<>>, message_outbox |-> <<>>,
   teammate_states |-> <<>>]

(* get_next_proposal_number with a stride of 10 *)
get_next_proposal_number_Stride10(id, r) ==
  [r |-> [r EXCEPT !.proposal_number = @ + 1],
   number |-> (r.proposal_number + 1) * 10 + id]

(* save.py Robot.get_next_proposal_number: the robot after the call and the
   number returned *)
get_next_proposal_number(id, r) ==
  [r |-> [r EXCEPT !.proposal_number = @ + 1],
   number |-> (r.proposal_number + 1) * ProposalStride + id]

(* ---------------------------------------------------------------------- *)
(* save.py: robots of both groups drawing proposal numbers                  *)
(* ---------------------------------------------------------------------- *)
MaxProposals == 3
(* ids of save.py main: 0..9 in group 1, 10..19 in group 2; the first two and
   the last of each group *)
ProposerIds == {0, 1, 9, 10, 11, 19}

InitNumbers ==
  /\ robots = [id \in ProposerIds |-> save_NewRobot(id, <<0, 0>>, "N")]
  /\ grid = GridWithGold({})
  /\ num_gold = CountGold(GridWithGold({}))
  /\ scores = [t \in {1, 2} |-> 0]
  /\ pickup_counts = [t \in {1, 2} |-> 0]
  /\ delayed_messages = <<>>
  /\ current_step = 0
  /\ step = 0
  /\ physical_gold_carriers = [p \in {} |-> NoPos]
  /\ message_delay_range = <<MinDelay, MinDelay>>
  /\ random_stream = "any"
  /\ steps = 0
  /\ pc = "deliver"

(* proposal_id = self.get_next_proposal_number() and
   self.highest_proposal_seen = proposal_id of save.py lines 379-380 *)
DrawProposalNumber ==
  /\ \E id \in RobotIds :
       /\ robots[id].proposal_number < MaxProposals
       /\ LET drawn == get_next_proposal_number(id, robots[id])
          IN robots' = [robots EXCEPT
                          ![id] = [drawn.r EXCEPT !.highest_proposal_seen = drawn.number]]
  /\ MovesUnchanged
SpecNumbers == InitNumbers /\ [][DrawProposalNumber]_vars

(* ---------------------------------------------------------------------- *)
(* Three robots of group 1 and acknowledgements that arrive late           *)
(* ---------------------------------------------------------------------- *)
LateDelay == 18
LateSteps == 25

(* Robot 2 faces the one unit from the west; robots 0 and 1 stand in the east
   corners with their faces to the wall *)
LateStart == (0 :> At(2, 2, "S")) @@ (1 :> At(0, 2, "N")) @@ (2 :> At(1, 0, "E"))
InitLate == Construct({<<1, 1>>}, LateStart, <<MinDelay, LateDelay>>, "late_ack", LateSteps)
SpecLate == InitLate /\ [][Next]_vars


(* ---------------------------------------------------------------------- *)
(* Group 1 alone with message_delay_range = (0, 0)                         *)
(* ---------------------------------------------------------------------- *)
ZeroSteps == 12
ZeroDelayRange == <<0, 0>>
InitZero == Construct({<<2, 1>>}, CarryStart, ZeroDelayRange, "any", ZeroSteps)
SpecZero == InitZero /\ [][Next]_vars


(* ---------------------------------------------------------------------- *)
(* _execute_actions on a cell that holds several units                     *)
(* ---------------------------------------------------------------------- *)
MaxUnits == 3
StackSteps == 4
StackCell == <<1, 1>>

(* a robot standing on StackCell, facing d, in ready_to_pickup, whose
   decide_action has returned "pickup" once; it is paired with partner in
   conversation 1 of finder *)
ReadyRobot(id, d, partner, finder) ==
  [NewRobot(id, StackCell, d) EXCEPT
     !.state = "ready_to_pickup", !.next_action = "pickup", !.pickup_timer = 1,
     !.role = IF id = finder THEN "finder" ELSE "helper",
     !.carrying_with = partner, !.target_gold_pos = StackCell,
     !.current_message_index = 1,
     !.message_index = IF id = finder THEN 1 ELSE 0,
     !.finder_id = IF id = finder THEN NoId ELSE finder,
     !.helper_id = IF id = finder THEN partner ELSE NoId]

(* Grid(3, 1) with its unit on StackCell, the cell then set to 2 units or more
   by Grid.update_cell; two robots of each group stand on it, each pair facing
   one way, and _execute_actions is about to run *)
InitStack ==
  /\ \E units \in 2 .. MaxUnits :
       grid = [GridWithGold({StackCell}) EXCEPT ![StackCell] = units]
  /\ num_gold = CountGold(GridWithGold({StackCell}))
  /\ \E d1, d2 \in {"N", "E", "S", "W"} :
       robots = (0 :> ReadyRobot(0, d1, 1, 0)) @@ (1 :> ReadyRobot(1, d1, 0, 0))
                @@ (10 :> ReadyRobot(10, d2, 11, 10)) @@ (11 :> ReadyRobot(11, d2, 10, 10))
  /\ scores = [t \in {1, 2} |-> 0]
  /\ pickup_counts = [t \in {1, 2} |-> 0]
  /\ delayed_messages = <<>>
  /\ current_step = 0
  /\ step = 0
  /\ physical_gold_carriers = [p \in {} |-> NoPos]
  /\ message_delay_range = <<MinDelay, MinDelay>>
  /\ random_stream = "any"
  /\ steps = StackSteps
  /\ pc = "execute"
SpecStack == InitStack /\ [][Next]_vars


(* ---------------------------------------------------------------------- *)
(* A carrier waiting in at_deposit                                          *)
(* ---------------------------------------------------------------------- *)
DepositSteps == 3
DepositGold == {<<2, 1>>}

(* a robot of the carrying pair {id, partner}, its fields set on the
   constructed Robot as test_project.py sets them in setUp *)
CarrierRobot(id, pos, d, partner, state, waited) ==
  [NewRobot(id, pos, d) EXCEPT
     !.state = state, !.holding_gold = TRUE, !.carrying_with = partner,
     !.wait_timer = waited]

(* Robot 0 of group 1 stands on its deposit cell in at_deposit, holding, and
   has waited there 19 or 20 updates; its partner, robot 1, is in
   carrying_gold on any other cell; the pair is in physical_gold_carriers *)
InitDeposit ==
  /\ grid = GridWithGold(DepositGold)
  /\ num_gold = CountGold(GridWithGold(DepositGold))
  /\ \E waited \in {DepositTimeout - 1, DepositTimeout} :
     \E pos \in (0 .. GridSize - 1) \X (0 .. GridSize - 1) :
     \E d \in {"N", "E", "S", "W"} :
       /\ pos # get_deposit_pos(1)
       /\ robots = (0 :> CarrierRobot(0, get_deposit_pos(1), "N", 1, "at_deposit", waited))
                    @@ (1 :> CarrierRobot(1, pos, d, 0, "carrying_gold", 0))
  /\ scores = [t \in {1, 2} |-> 0]
  /\ pickup_counts = [t \in {1, 2} |-> 0]
  /\ delayed_messages = <<>>
  /\ current_step = 0
  /\ step = 0
  /\ physical_gold_carriers = ({0, 1} :> <<1, 1>>)
  /\ message_delay_range = <<MinDelay, MinDelay>>
  /\ random_stream = "any"
  /\ steps = DepositSteps
  /\ pc = "deliver"
SpecDeposit == InitDeposit /\ [][Next]_vars

(* ---------------------------------------------------------------------- *)
(* A pair carrying in step, as TestSynchronizedMovement sets it up          *)
(* ---------------------------------------------------------------------- *)
CarrySteps == 12
CarryGold == {<<2, 1>>, <<1, 2>>}

(* Robots 0 and 1 of group 1 stand on one cell other than their deposit cell,
   face the same way, are in carrying_gold and hold; the pair is in
   physical_gold_carriers.  Two more units lie on the grid *)
InitCarry ==
  /\ grid = GridWithGold(CarryGold)
  /\ num_gold = CountGold(GridWithGold(CarryGold))
  /\ \E pos \in (0 .. GridSize - 1) \X (0 .. GridSize - 1) :
     \E d \in {"N", "E", "S", "W"} :
       /\ pos # get_deposit_pos(1)
       /\ robots = (0 :> CarrierRobot(0, pos, d, 1, "carrying_gold", 0))
                    @@ (1 :> CarrierRobot(1, pos, d, 0, "carrying_gold", 0))
       /\ physical_gold_carriers = ({0, 1} :> pos)
  /\ scores = [t \in {1, 2} |-> 0]
  /\ pickup_counts = [t \in {1, 2} |-> 0]
  /\ delayed_messages = <<>>
  /\ current_step = 0
  /\ step = 0
  /\ message_delay_range = <<MinDelay, MinDelay>>
  /\ random_stream = "crowd_walk"
  /\ steps = CarrySteps
  /\ pc = "deliver"
SpecCarry == InitCarry /\ [][Next]_vars

(* ---------------------------------------------------------------------- *)
(* One robot among teammates that may send anything their code can send    *)
(* ---------------------------------------------------------------------- *)
RobotSteps == 20
PartnerSteps == 37

(* Robot 0 of group 1 faces the one unit from the west.  Its teammates, ids 1
   and 2, are not stepped: what reaches robot 0 from them is any message
   their process_messages, decide_action and _broadcast_my_state can put on
   the bus, with the index of their first or second conversation *)
SoloStart == (0 :> At(1, 0, "E"))
SoloGold == {<<1, 1>>}
TeammateIndices == {1, 2}
TeammateMessages ==
  {FoundMsg(1, i, <<1, 1>>, <<1, 2>>) : i \in TeammateIndices}
  \cup {ResponseMsg(1, 0, i) : i \in TeammateIndices}
  \cup {AckMsg(1, h, i) : h \in {0, 2}, i \in TeammateIndices}
  \cup {HereMsg(1, 0, i) : i \in TeammateIndices}
  \cup {Ack2Msg(1, 0, i) : i \in TeammateIndices}
  \cup {StateMsg(1, "waiting_at_gold", "helper", <<1, 1>>),
        StateMsg(1, "exploring", "exploring", <<0, 0>>)}

(* Teammate 1 as the helper of robot 0's first conversation only: it answers
   the found message, reports that it is in place, and broadcasts its state
   from the unit's cell or from elsewhere, each at any time or never *)
PartnerMessages ==
  {ResponseMsg(1, 0, 1), HereMsg(1, 0, 1),
   StateMsg(1, "waiting_at_gold", "helper", <<1, 1>>),
   StateMsg(1, "exploring", "exploring", <<0, 0>>)}

(* Simulation._process_delayed_messages as robot 0 sees it: the messages of
   its own that are due leave the queue, and at most one message of menu
   lands in its inbox *)
DeliverFrom(menu) ==
  /\ pc = "deliver"
  /\ step < steps
  /\ current_step' = step
  /\ delayed_messages' = NotDue(delayed_messages, step)
  /\ \E arrived \in {<<>>} \cup {<<m>> : m \in menu} :
       robots' = [id \in RobotIds |->
                    [robots[id] EXCEPT !.message_inbox = @ \o arrived]]
  /\ pc' = "send"
  /\ UNCHANGED <<grid, num_gold, scores, pickup_counts, step, steps, physical_gold_carriers,
                 message_delay_range, random_stream>>

TeammatesDeliver == DeliverFrom(TeammateMessages)
PartnerDelivers == DeliverFrom(PartnerMessages)

NextRobot ==
  \/ TeammatesDeliver
  \/ ProcessMessages
  \/ UpdateRobots
  \/ ExecuteActions
  \/ EndOfStep
  \/ OutOfSteps

(* the random walk of robot 0 follows the stream crowd_walk *)
InitRobot ==
  Construct(SoloGold, SoloStart, <<MinDelay, MinDelay>>, "crowd_walk", RobotSteps)
SpecRobot == InitRobot /\ [][NextRobot]_vars

NextPartner ==
  \/ PartnerDelivers
  \/ ProcessMessages
  \/ UpdateRobots
  \/ ExecuteActions
  \/ EndOfStep
  \/ OutOfSteps

InitPartner == Construct(SoloGold, SoloStart, <<MinDelay, MinDelay>>, "any", PartnerSteps)
SpecPartner == InitPartner /\ [][NextPartner]_vars


(* ---------------------------------------------------------------------- *)
(* save.py: the Paxos variant of the robot                                  *)
(* ---------------------------------------------------------------------- *)
(* The messages of save.py as records of one shape; a content key a message
   does not carry holds the value content.get would default to.  plan stands
   for the content keys accepted_value, value and plan *)
save_Msg(type, sender, recipient) ==
  [type |-> type, sender_id |-> sender, recipient_id |-> recipient, broadcast |-> FALSE,
   proposal_id |-> NoId, accepted_proposal |-> NoId, plan |-> NoPlan,
   state |-> "", paxos_state |-> "", pos |-> NoPos]
PrepareMsg(sender, recipient, n) ==
  [save_Msg("paxos_prepare", sender, recipient) EXCEPT !.proposal_id = n]
PromiseMsg(sender, recipient, n, acc, value) ==
  [save_Msg("paxos_promise", sender, recipient) EXCEPT
     !.proposal_id = n, !.accepted_proposal = acc, !.plan = value]
AcceptMsg(sender, recipient, n, value) ==
  [save_Msg("paxos_accept", sender, recipient) EXCEPT !.proposal_id = n, !.plan = value]
AcceptedMsg(sender, recipient, n) ==
  [save_Msg("paxos_accepted", sender, recipient) EXCEPT !.proposal_id = n]
CommitMsg(sender, recipient, value) ==
  [save_Msg("paxos_commit", sender, recipient) EXCEPT !.plan = value]
AtGoldMsg(sender, recipient, pos) ==
  [save_Msg("at_gold", sender, recipient) EXCEPT !.pos = pos]
ReadyPickupMsg(sender, recipient, pos) ==
  [save_Msg("ready_pickup", sender, recipient) EXCEPT !.pos = pos]
(* save.py lines 458-470, the message of _broadcast_my_state *)
save_StateMsg(sender, st, pst, pos) ==
  [save_Msg("state_update", sender, NoId) EXCEPT
     !.broadcast = TRUE, !.state = st, !.paxos_state = pst, !.pos = pos]

(* teammate_states is a dict: its keys keep the order in which they were
   first set, so it is a sequence of entries here *)
KnownIds(r) == [k \in 1 .. Len(r.teammate_states) |-> r.teammate_states[k].id]
IsKnown(r, t) == \E k \in 1 .. Len(r.teammate_states) : r.teammate_states[k].id = t
StateOf(r, t) ==
  r.teammate_states[CHOOSE k \in 1 .. Len(r.teammate_states) : r.teammate_states[k].id = t]

(* save.py lines 155-157: self.teammate_states[teammate_id] = msg["content"] *)
on_state_update(id, r, msg) ==
  LET entry == [id |-> msg.sender_id, state |-> msg.state,
                paxos_state |-> msg.paxos_state, position |-> msg.pos]
  IN [r EXCEPT !.teammate_states =
        IF IsKnown(r, msg.sender_id)
        THEN [k \in 1 .. Len(@) |-> IF @[k].id = msg.sender_id THEN entry ELSE @[k]]
        ELSE Append(@, entry)]

(* save.py lines 159-173 *)
on_paxos_prepare(id, r, msg) ==
  IF msg.proposal_id >= r.highest_proposal_seen
  THEN [r EXCEPT
          !.highest_proposal_seen = msg.proposal_id,
          !.paxos_state = "preparing",
          !.message_outbox =
             Append(@, PromiseMsg(id, msg.sender_id, msg.proposal_id,
                                  r.accepted_proposal, r.accepted_value))]
  ELSE r

(* all_known_teammates = list(self.teammate_states.keys()) + [self.id] *)
AllKnownTeammates(id, r) == Append(KnownIds(r), id)
(* IsMajority as len(received) >= num_teammates // 2 *)
IsMajority_FloorHalf(r, received) ==
  Cardinality(received) >= (Len(r.teammate_states) + 1) \div 2

(* len(received) > num_teammates / 2 with num_teammates = len(teammate_states) + 1 *)
IsMajority(r, received) == 2 * Cardinality(received) > Len(r.teammate_states) + 1

(* save.py lines 175-199 *)
on_paxos_promise(id, r, msg) ==
  IF r.paxos_state = "preparing" /\ msg.proposal_id = r.highest_proposal_seen
  THEN LET counted == [r EXCEPT !.promises_received = @ \cup {msg.sender_id}]
           adopted == IF msg.accepted_proposal > counted.accepted_proposal
                      THEN [counted EXCEPT !.accepted_proposal = msg.accepted_proposal,
                                           !.accepted_value = msg.plan]
                      ELSE counted
           to == AllKnownTeammates(id, adopted)
       IN IF IsMajority(adopted, adopted.promises_received)
          THEN [adopted EXCEPT
                  !.paxos_state = "proposing",
                  !.message_outbox =
                     @ \o [k \in 1 .. Len(to) |->
                             AcceptMsg(id, to[k], adopted.highest_proposal_seen,
                                       adopted.accepted_value)]]
          ELSE adopted
  ELSE r

(* the paxos_accept branch without its test of the proposal number *)
on_paxos_accept_AnyNumber(id, r, msg) ==
  [r EXCEPT
     !.accepted_proposal = msg.proposal_id,
     !.accepted_value = msg.plan,
     !.paxos_state = "proposing",
     !.message_outbox = Append(@, AcceptedMsg(id, msg.sender_id, msg.proposal_id))]

(* save.py lines 201-212 *)
on_paxos_accept(id, r, msg) ==
  IF msg.proposal_id >= r.highest_proposal_seen
  THEN [r EXCEPT
          !.accepted_proposal = msg.proposal_id,
          !.accepted_value = msg.plan,
          !.paxos_state = "proposing",
          !.message_outbox = Append(@, AcceptedMsg(id, msg.sender_id, msg.proposal_id))]
  ELSE r

(* save.py lines 214-237 *)
on_paxos_accepted(id, r, msg) ==
  IF r.paxos_state = "proposing" /\ msg.proposal_id = r.highest_proposal_seen
  THEN LET counted == [r EXCEPT !.accepts_received = @ \cup {msg.sender_id}]
           to == AllKnownTeammates(id, counted)
       IN IF IsMajority(counted, counted.accepts_received)
          THEN [counted EXCEPT
                  !.paxos_state = "finished",
                  !.current_plan = counted.accepted_value,
                  !.message_outbox =
                     @ \o [k \in 1 .. Len(to) |->
                             CommitMsg(id, to[k], counted.accepted_value)],
                  !.promises_received = {},
                  !.accepts_received = {},
                  !.proposal_backoff = 0]
          ELSE counted
  ELSE r

(* save.py lines 239-242 *)
on_paxos_commit(id, r, msg) ==
  [r EXCEPT !.current_plan = msg.plan, !.paxos_state = "idle", !.proposal_backoff = 0]

(* save.py lines 244-247 *)
on_at_gold(id, r, msg) ==
  IF msg.sender_id = r.carrying_with /\ r.position = r.target_gold_pos
  THEN [r EXCEPT !.state = "ready_to_pickup"]
  ELSE r

(* save.py lines 249-252 *)
on_ready_pickup(id, r, msg) ==
  IF /\ msg.sender_id = r.carrying_with
     /\ r.position = r.target_gold_pos
     /\ r.position = msg.pos
  THEN [r EXCEPT !.state = "ready_to_pickup"]
  ELSE r

(* save.py lines 254-259 *)
on_drop_gold(id, r, msg) ==
  IF msg.sender_id = r.carrying_with
  THEN [r EXCEPT !.holding_gold = FALSE, !.carrying_with = NoId,
                 !.state = "idle", !.target_gold_pos = NoPos]
  ELSE r

(* save.py lines 151-259, the body of the loop over the inbox *)
save_handle(id, r, msg) ==
  CASE msg.type = "state_update" -> on_state_update(id, r, msg)
    [] msg.type = "paxos_prepare" -> on_paxos_prepare(id, r, msg)
    [] msg.type = "paxos_promise" -> on_paxos_promise(id, r, msg)
    [] msg.type = "paxos_accept" -> on_paxos_accept(id, r, msg)
    [] msg.type = "paxos_accepted" -> on_paxos_accepted(id, r, msg)
    [] msg.type = "paxos_commit" -> on_paxos_commit(id, r, msg)
    [] msg.type = "at_gold" -> on_at_gold(id, r, msg)
    [] msg.type = "ready_pickup" -> on_ready_pickup(id, r, msg)
    [] msg.type = "drop_gold" -> on_drop_gold(id, r, msg)
    [] OTHER -> r

(* the robot after the first n messages of its inbox *)
RECURSIVE save_handled(_, _, _)
save_handled(id, r, n) ==
  IF n = 0 THEN r
  ELSE save_handle(id, save_handled(id, r, n - 1), r.message_inbox[n])

(* save.py lines 148-261, Robot.process_messages *)
save_process_messages(id, r) ==
  [save_handled(id, r, Len(r.message_inbox)) EXCEPT !.message_inbox = <<>>]

(* save.py lines 116 and 434: dir_map, as (dx, dy) *)
save_dir_map(d) ==
  CASE d = "N" -> <<0, 0 - 1>>
    [] d = "S" -> <<0, 1>>
    [] d = "E" -> <<1, 0>>
    [] d = "W" -> <<0 - 1, 0>>

(* save.py lines 110-137, Robot.observe: the cells of the three-wide front
   row and the five-wide second row that are on the grid and hold exactly 1 *)
save_observe(r, g) ==
  LET d == save_dir_map(r.direction)
      perp == IF r.direction \in {"N", "S"} THEN <<1, 0>> ELSE <<0, 1>>
      front == <<r.position[1] + d[1], r.position[2] + d[2]>>
      front2 == <<front[1] + d[1], front[2] + d[2]>>
      seen == {<<front[1] + i * perp[1], front[2] + i * perp[2]>> : i \in {0 - 1, 0, 1}}
              \cup {<<front2[1] + i * perp[1], front2[2] + i * perp[2]>> : i \in (0 - 2) .. 2}
  IN {pos \in seen \cap Cells : g[pos] = 1}

save_dirs == <<"N", "E", "S", "W">>
save_index(d) == CHOOSE k \in 0 .. 3 : save_dirs[k + 1] = d

(* save.py lines 420-429, Robot._should_turn_left *)
save_should_turn_left(r, target_dir) ==
  LET current_idx == save_index(r.direction)
      target_idx == save_index(target_dir)
  IN (current_idx - target_idx) % 4 <= (target_idx - current_idx) % 4

(* save.py lines 402-418, Robot._get_move_action_towards *)
save_get_move_action_towards(r, target) ==
  LET dx == target[1] - r.position[1]
      dy == target[2] - r.position[2]
      desired == IF Abs(dx) > Abs(dy)
                 THEN (IF dx > 0 THEN "E" ELSE "W")
                 ELSE (IF dy < 0 THEN "N" ELSE "S")
  IN IF r.direction # desired
     THEN (IF save_should_turn_left(r, desired) THEN "turn_left" ELSE "turn_right")
     ELSE "move"

(* save.py lines 431-448, Robot.execute_action *)
save_execute_action(r, action) ==
  CASE action = "move" ->
         LET d == save_dir_map(r.direction)
             new_pos == <<r.position[1] + d[1], r.position[2] + d[2]>>
         IN IF new_pos \in Cells THEN [r EXCEPT !.position = new_pos] ELSE r
    [] action = "turn_left" ->
         [r EXCEPT !.direction =
            CASE @ = "N" -> "W" [] @ = "W" -> "S" [] @ = "S" -> "E" [] @ = "E" -> "N"]
    [] action = "turn_right" ->
         [r EXCEPT !.direction = save_dirs[((save_index(@) + 1) % 4) + 1]]
    [] OTHER -> r

WaitAtGoldLimit == 20

(* the random module of save.py is never seeded either.  random.random() <
   0.3 of line 363 may come out either way in every stream; stream "any"
   lets randint(5, 15) of line 391 and the exploration draws of lines 396-398
   yield all their values; stream "short_backoff" is the stream in which
   randint yields 5 and random.random() < 0.2 with random.choice picking
   turn_left comes out at every exploration; stream "walk_on" is the one in
   which random.random() < 0.2 never comes out, so that every exploration is
   a move *)
BackoffMin == 5
BackoffMax == 15
save_backoff(stream) == IF stream = "any" THEN BackoffMin .. BackoffMax ELSE {BackoffMin}
save_explore(stream) ==
  IF stream = "any" THEN {"turn_left", "turn_right", "move"}
  ELSE IF stream = "walk_on" THEN {"move"}
  ELSE {"turn_left"}

(* save.py lines 363-376: the plans the while loop can build.  min() over the
   set available_gold takes the first nearest cell in the set's iteration
   order, which the language does not fix: any nearest cell *)
RECURSIVE BuildPlans(_, _, _)
BuildPlans(ids, gold, pos) ==
  IF Len(ids) >= 2 /\ gold # {}
  THEN LET nearest == {c \in gold : \A o \in gold : Manhattan(c, pos) <= Manhattan(o, pos)}
       IN UNION {{(ids[1] :> [partner_id |-> ids[2], gold_pos |-> target])
                  @@ (ids[2] :> [partner_id |-> ids[1], gold_pos |-> target])
                  @@ rest :
                    rest \in BuildPlans(SubSeq(ids, 3, Len(ids)), gold \ {target}, pos)} :
                 target \in nearest}
  ELSE {NoPlan}

(* the ids of list in which the teammate is idle in both senses (lines 351-352) *)
RECURSIVE IdleTeammateIds(_)
IdleTeammateIds(ts) ==
  IF ts = <<>> THEN <<>>
  ELSE (IF Head(ts).state = "idle" /\ Head(ts).paxos_state = "idle"
        THEN <<Head(ts).id>> ELSE <<>>) \o IdleTeammateIds(Tail(ts))

(* partner_state.get("position") == self.position and partner_state.get("state")
   in ["waiting_at_gold", "ready_to_pickup"] for a partner in teammate_states *)
PartnerWaitsHere(r) ==
  /\ IsKnown(r, r.carrying_with)
  /\ StateOf(r, r.carrying_with).position = r.position
  /\ StateOf(r, r.carrying_with).state \in {"waiting_at_gold", "ready_to_pickup"}

(* not grid_state[self.target_gold_pos] > 0 *)
TargetEmpty(r, g) == ~(g[r.target_gold_pos] > 0)

(* save.py lines 337-398, the idle branch of decide_action *)
decide_idle(id, r, g, observed, stream) ==
  IF r.current_plan # NoPlan /\ id \in DOMAIN r.current_plan
  THEN LET assignment == r.current_plan[id]
           planned == [r EXCEPT !.state = "moving_to_gold",
                                !.target_gold_pos = assignment.gold_pos,
                                !.carrying_with = assignment.partner_id,
                                !.paxos_state = "idle",
                                !.current_plan = NoPlan]
       IN {[r |-> planned,
            action |-> save_get_move_action_towards(planned, planned.target_gold_pos)]}
  ELSE LET cooled == IF r.proposal_backoff > 0
                     THEN [r EXCEPT !.proposal_backoff = @ - 1] ELSE r
           idle_teammate_ids == IdleTeammateIds(r.teammate_states)
           all_idle_ids == IF r.paxos_state = "idle"
                           THEN Append(idle_teammate_ids, id) ELSE idle_teammate_ids
           explores == {[r |-> cooled, action |-> a] : a \in save_explore(stream)}
           proposes ==
             {IF plan # NoPlan
              THEN LET drawn == get_next_proposal_number(id, cooled)
                       to == KnownIds(cooled)
                   IN [r |-> [drawn.r EXCEPT
                                !.paxos_state = "preparing",
                                !.highest_proposal_seen = drawn.number,
                                !.accepted_value = plan,
                                !.message_outbox =
                                   @ \o [k \in 1 .. Len(to) |->
                                           PrepareMsg(id, to[k], drawn.number)],
                                !.promises_received = {id},
                                !.proposal_backoff = backoff],
                       action |-> "idle"]
              ELSE [r |-> [cooled EXCEPT !.paxos_state = "preparing"], action |-> "idle"] :
                plan \in BuildPlans(all_idle_ids, observed, cooled.position),
                backoff \in save_backoff(stream)}
       IN IF all_idle_ids = <<>>
          THEN {[r |-> cooled, action |-> "move"]}
          ELSE IF observed # {} /\ cooled.paxos_state = "idle" /\ cooled.proposal_backoff = 0
          THEN proposes \cup explores
          ELSE explores

(* save.py lines 263-400, Robot.decide_action: the robot and the action it
   returns, for every outcome of the random draws *)
save_decide_action(id, r, g, observed, stream) ==
  CASE r.state = "carrying_gold" /\ r.holding_gold ->
         IF r.position = get_deposit_pos(GroupOf(id))
         THEN IF IsKnown(r, r.carrying_with)
                 /\ StateOf(r, r.carrying_with).position = r.position
              THEN {[r |-> [r EXCEPT !.state = "at_deposit"], action |-> "idle"]}
              ELSE {[r |-> r, action |-> "idle"]}
         ELSE {[r |-> r,
                action |-> save_get_move_action_towards(r, get_deposit_pos(GroupOf(id)))]}
    [] r.state = "ready_to_pickup" -> {[r |-> r, action |-> "pickup"]}
    [] r.state = "waiting_at_gold" ->
         LET timed == [r EXCEPT !.wait_timer = @ + 1]
             given_up == [timed EXCEPT !.state = "idle", !.carrying_with = NoId,
                                       !.target_gold_pos = NoPos, !.paxos_state = "idle",
                                       !.wait_timer = 0]
         IN IF timed.position # timed.target_gold_pos
            THEN {[r |-> [timed EXCEPT !.state = "moving_to_gold", !.wait_timer = 0],
                   action |-> save_get_move_action_towards(timed, timed.target_gold_pos)]}
            ELSE IF PartnerWaitsHere(timed)
            THEN {[r |-> [timed EXCEPT
                            !.state = "ready_to_pickup", !.wait_timer = 0,
                            !.message_outbox =
                               Append(@, ReadyPickupMsg(id, timed.carrying_with,
                                                        timed.position))],
                   action |-> "idle"]}
            ELSE IF TargetEmpty(timed, g) \/ timed.wait_timer > WaitAtGoldLimit
            THEN {[r |-> given_up, action |-> "idle"]}
            ELSE {[r |-> timed, action |-> "idle"]}
    [] r.state = "moving_to_gold" /\ r.target_gold_pos # NoPos ->
         IF r.position = r.target_gold_pos
         THEN LET arrived == [r EXCEPT
                                !.state = "waiting_at_gold",
                                !.message_outbox =
                                   IF r.carrying_with # NoId
                                   THEN Append(@, AtGoldMsg(id, r.carrying_with, r.position))
                                   ELSE @]
              IN IF PartnerWaitsHere(arrived)
                 THEN {[r |-> [arrived EXCEPT
                                 !.state = "ready_to_pickup",
                                 !.message_outbox =
                                    Append(@, ReadyPickupMsg(id, arrived.carrying_with,
                                                             arrived.position))],
                        action |-> "idle"]}
                 ELSE {[r |-> arrived, action |-> "idle"]}
         ELSE IF TargetEmpty(r, g)
         THEN {[r |-> [r EXCEPT !.state = "idle", !.carrying_with = NoId,
                                !.target_gold_pos = NoPos],
                action |-> "idle"]}
         ELSE {[r |-> r, action |-> save_get_move_action_towards(r, r.target_gold_pos)]}
    [] r.state = "idle" -> decide_idle(id, r, g, observed, stream)
    [] OTHER -> {[r |-> r, action |-> "idle"]}

(* save.py lines 450-470, Robot.update and _broadcast_my_state: every robot
   the update can leave behind *)
save_update(id, r, g, stream) ==
  {[d.r EXCEPT
      !.next_action = d.action,
      !.message_outbox =
         Append(@, save_StateMsg(id, d.r.state, d.r.paxos_state, d.r.position))] :
     d \in save_decide_action(id, save_process_messages(id, r), g, save_observe(r, g),
                              stream)}

(* ---------------------------------------------------------------------- *)
(* save.py: the steps of its Simulation.run                                 *)
(* ---------------------------------------------------------------------- *)
(* save.py lines 558-563: a drop_gold message puts a unit on an empty cell at
   once, in the order of the messages *)
RECURSIVE GridAfterDropMessages(_, _)
GridAfterDropMessages(msgs, g) ==
  IF msgs = <<>> THEN g
  ELSE GridAfterDropMessages(
         Tail(msgs),
         IF Head(msgs).type = "drop_gold" /\ g[Head(msgs).pos] = 0
         THEN [g EXCEPT ![Head(msgs).pos] = 1] ELSE g)

RECURSIVE WithoutDropMessages(_)
WithoutDropMessages(msgs) ==
  IF msgs = <<>> THEN <<>>
  ELSE (IF Head(msgs).type = "drop_gold" THEN <<>> ELSE <<Head(msgs)>>)
       \o WithoutDropMessages(Tail(msgs))

(* save.py line 567: random.randint over message_delay_range.  Stream
   "short_backoff" is the family of streams in which every state_update draws
   the minimum; every other message draws any delay of the range *)
save_random_delay(stream, range, msg) ==
  IF stream = "short_backoff" /\ msg.type = "state_update"
  THEN {range[1]}
  ELSE range[1] .. range[2]

(* save.py lines 565-569: the (delivery_step, msg) entries the messages can
   get, each message with a delay of its own *)
RECURSIVE save_Schedules(_, _, _, _)
save_Schedules(msgs, now, range, stream) ==
  IF msgs = <<>> THEN {<<>>}
  ELSE {<<[delivery_step |-> now + delay, msg |-> Head(msgs)]>> \o rest :
          delay \in save_random_delay(stream, range, Head(msgs)),
          rest \in save_Schedules(Tail(msgs), now, range, stream)}

(* save.py lines 551-573, Simulation._process_messages *)
save_ProcessMessages ==
  /\ pc = "send"
  /\ LET messages_to_send == AllOutboxes(all_robots, robots)
     IN /\ \E scheduled \in save_Schedules(WithoutDropMessages(messages_to_send),
                                            current_step, message_delay_range,
                                            random_stream) :
             delayed_messages' = delayed_messages \o scheduled
        /\ grid' = GridAfterDropMessages(messages_to_send, grid)
  /\ robots' = [id \in RobotIds |-> [robots[id] EXCEPT !.message_outbox = <<>>]]
  /\ pc' = "update"
  /\ UNCHANGED <<num_gold, scores, pickup_counts, current_step, step, steps,
                 physical_gold_carriers, message_delay_range, random_stream>>

(* save.py lines 496-497: the robots are updated one after the other; an
   update writes the fields of its own robot only *)
RECURSIVE save_update_all(_, _, _, _)
save_update_all(order, rs, g, stream) ==
  IF order = <<>> THEN {rs}
  ELSE UNION {save_update_all(Tail(order), [rs EXCEPT ![Head(order)] = updated], g, stream) :
                updated \in save_update(Head(order), rs[Head(order)], g, stream)}

(* save.py lines 496-497 *)
save_UpdateRobots ==
  /\ pc = "update"
  /\ robots' \in save_update_all(all_robots, robots, grid, random_stream)
  /\ pc' = "execute"
  /\ UNCHANGED <<grid, num_gold, scores, pickup_counts, delayed_messages, current_step,
                 step, steps, physical_gold_carriers, message_delay_range, random_stream>>

(* save.py lines 606-618: the two robots of a successful pickup hold the unit
   and are each other's partner *)
HoldingAfterPickups(np, rs) ==
  [id \in DOMAIN rs |->
     IF \E n \in np : id \in n.pair
     THEN [rs[id] EXCEPT
             !.holding_gold = TRUE, !.state = "carrying_gold",
             !.carrying_with =
                CHOOSE o \in (CHOOSE n \in np : id \in n.pair).pair : o # id]
     ELSE rs[id]]

(* save.py lines 622-628 *)
save_RobotsAfterMovement(rs) ==
  [id \in DOMAIN rs |->
     IF rs[id].next_action \notin {"pickup", "idle"}
     THEN save_execute_action(rs[id], rs[id].next_action) ELSE rs[id]]

(* save.py lines 630-648: the robots are visited in order; a robot that holds
   a unit and has a partner (an id that is not 0, the test being the value's
   truth) whose position differs drops it on the cell it came from *)
RECURSIVE AfterSeparations(_, _, _, _)
AfterSeparations(order, before, rs, g) ==
  IF order = <<>> THEN [rs |-> rs, g |-> g]
  ELSE LET id == Head(order)
           partner == rs[id].carrying_with
       IN IF /\ rs[id].holding_gold
             /\ partner \notin {NoId, 0}
             /\ partner \in DOMAIN rs
             /\ rs[partner].holding_gold
             /\ rs[id].position # rs[partner].position
          THEN LET drop_pos == IF before[id].next_action \notin {"pickup", "idle"}
                               THEN before[id].position ELSE rs[id].position
                   reset(r) == [r EXCEPT !.holding_gold = FALSE, !.state = "idle",
                                         !.carrying_with = NoId]
               IN AfterSeparations(Tail(order), before,
                                   [rs EXCEPT ![id] = reset(@), ![partner] = reset(@)],
                                   [g EXCEPT ![drop_pos] = 1])
          ELSE AfterSeparations(Tail(order), before, rs, g)

(* save.py lines 650-668: a robot in at_deposit that holds a unit on its
   deposit cell scores with a partner that is there and holds it too *)
RECURSIVE AfterDeposits(_, _, _)
AfterDeposits(order, rs, sc) ==
  IF order = <<>> THEN [rs |-> rs, sc |-> sc]
  ELSE LET id == Head(order)
           partner == rs[id].carrying_with
           deposit_pos == get_deposit_pos(GroupOf(id))
       IN IF /\ rs[id].state = "at_deposit" /\ rs[id].holding_gold
             /\ rs[id].position = deposit_pos
             /\ partner \in DOMAIN rs
             /\ rs[partner].position = deposit_pos
             /\ rs[partner].holding_gold
          THEN LET reset(r) == [r EXCEPT !.holding_gold = FALSE, !.state = "idle",
                                         !.carrying_with = NoId, !.target_gold_pos = NoPos]
               IN AfterDeposits(Tail(order),
                                [rs EXCEPT ![id] = reset(@), ![partner] = reset(@)],
                                [sc EXCEPT ![GroupOf(id)] = @ + 1])
          ELSE AfterDeposits(Tail(order), rs, sc)

(* save.py lines 575-668, Simulation._execute_actions *)
save_ExecuteActions ==
  /\ pc = "execute"
  /\ LET np == NewPickups(robots, grid)
         held == HoldingAfterPickups(np, robots)
         moved == save_RobotsAfterMovement(held)
         separated == AfterSeparations(all_robots, held, moved, GridAfterPickups(np, grid))
         deposited == AfterDeposits(all_robots, separated.rs, scores)
     IN /\ pickup_counts' = CountsAfterPickups(np, pickup_counts)
        /\ grid' = separated.g
        /\ robots' = deposited.rs
        /\ scores' = deposited.sc
  /\ pc' = "check"
  /\ UNCHANGED <<num_gold, delayed_messages, current_step, step, steps,
                 physical_gold_carriers, message_delay_range, random_stream>>

(* Simulation.__init__ of save.py over a fresh grid and fresh robots;
   physical_gold_carriers is no field of this Simulation and stays empty *)
save_Construct(goldCells, start, delays, stream, budget) ==
  /\ grid = GridWithGold(goldCells)
  /\ num_gold = CountGold(GridWithGold(goldCells))
  /\ robots = [id \in DOMAIN start |-> save_NewRobot(id, start[id][1], start[id][2])]
  /\ scores = [t \in {1, 2} |-> 0]
  /\ pickup_counts = [t \in {1, 2} |-> 0]
  /\ delayed_messages = <<>>
  /\ current_step = 0
  /\ step = 0
  /\ physical_gold_carriers = [p \in {} |-> NoPos]
  /\ message_delay_range = delays
  /\ random_stream = stream
  /\ steps = budget
  /\ pc = "deliver"

(* ---------------------------------------------------------------------- *)
(* save.py: a team of three around one unit                                 *)
(* ---------------------------------------------------------------------- *)
PaxosGold == {<<1, 0>>}
TeamSteps == 13
TeamDelay == 2
TeamStart == (0 :> At(1, 2, "N")) @@ (1 :> At(0, 2, "S")) @@ (2 :> At(2, 2, "W"))

(* save.py lines 525-549, Simulation._process_delayed_messages *)
save_ProcessDelayedMessages == ProcessDelayedMessages

NextTeam ==
  \/ save_ProcessDelayedMessages
  \/ save_ProcessMessages
  \/ save_UpdateRobots
  \/ save_ExecuteActions
  \/ EndOfStep
  \/ OutOfSteps

InitTeam ==
  save_Construct(PaxosGold, TeamStart, <<MinDelay, TeamDelay>>, "short_backoff", TeamSteps)
SpecTeam == InitTeam /\ [][NextTeam]_vars

(* ---------------------------------------------------------------------- *)
(* save.py: an acceptor whose proposer falls silent                         *)
(* ---------------------------------------------------------------------- *)
AcceptorSteps == 26
ProposerTicks == 3

(* Robot 0 of group 1 stands at the south wall with the one unit behind it,
   and its explorations follow stream walk_on: it never sees the unit and
   never proposes.  Its teammates, ids 1 and 2, are not stepped.  Teammate 1
   proposes once, with number 101: during the
   first ProposerTicks ticks its paxos_prepare and its paxos_accept may reach
   robot 0, and it never sends a paxos_commit.  The state updates of both
   teammates may arrive in any tick *)
AcceptorStart == (0 :> At(1, 2, "S"))
TeammatePlan ==
  (0 :> [partner_id |-> 1, gold_pos |-> <<1, 0>>])
  @@ (1 :> [partner_id |-> 0, gold_pos |-> <<1, 0>>])
SilentProposerMessages(t) ==
  {save_StateMsg(1, "idle", "preparing", <<0, 1>>),
   save_StateMsg(2, "idle", "idle", <<2, 1>>)}
  \cup (IF t < ProposerTicks
        THEN {PrepareMsg(1, 0, ProposalStride + 1),
              AcceptMsg(1, 0, ProposalStride + 1, TeammatePlan)}
        ELSE {})

(* save.py lines 525-549, Simulation._process_delayed_messages, as robot 0
   sees it: its own messages that are due are delivered, and at most one
   message of menu lands in its inbox after them *)
save_DeliverFrom(menu) ==
  /\ pc = "deliver"
  /\ step < steps
  /\ current_step' = step
  /\ delayed_messages' = NotDue(delayed_messages, step)
  /\ \E arrived \in {<<>>} \cup {<<m>> : m \in menu} :
       robots' = [id \in RobotIds |->
                    [robots[id] EXCEPT !.message_inbox =
                       @ \o InboxAdditions(id, DueMsgs(delayed_messages, step))
                         \o arrived]]
  /\ pc' = "send"
  /\ UNCHANGED <<grid, num_gold, scores, pickup_counts, step, steps, physical_gold_carriers,
                 message_delay_range, random_stream>>

SilentProposerDelivers == save_DeliverFrom(SilentProposerMessages(step))

NextAcceptor ==
  \/ SilentProposerDelivers
  \/ save_ProcessMessages
  \/ save_UpdateRobots
  \/ save_ExecuteActions
  \/ EndOfStep
  \/ OutOfSteps

InitAcceptor ==
  save_Construct(PaxosGold, AcceptorStart, <<MinDelay, MinDelay>>, "walk_on",
                 AcceptorSteps)
SpecAcceptor == InitAcceptor /\ [][NextAcceptor]_vars

(* ---------------------------------------------------------------------- *)
(* Properties                                                              *)
(* ---------------------------------------------------------------------- *)
TeamOfPair(p) == GroupOf(CHOOSE id \in p : TRUE)
IntendersAt(c, t) ==
  {id \in RobotIds : GroupOf(id) = t /\ robots[id].position = c
                     /\ robots[id].next_action = "pickup"}
NewPairs == DOMAIN physical_gold_carriers' \ DOMAIN physical_gold_carriers
RECURSIVE SumOver(_, _)
SumOver(S, f) ==
  IF S = {} THEN 0
  ELSE LET x == CHOOSE y \in S : TRUE IN f[x] + SumOver(S \ {x}, f)

(* C1: at the end of every tick the units on the non-deposit cells, plus one
   unit per carrying pair, plus both scores, equal grid.num_gold *)
C1_ResourceConservation ==
  pc = "check" =>
    SumOver(Cells \ DepositCells, grid) + Cardinality(DOMAIN physical_gold_carriers)
      + scores[1] + scores[2] = num_gold
(* a tick has ended after a pickup and a drop: a unit was taken off the grid,
   no pair carries and nothing is scored *)
C1_Witness ==
  /\ pc = "check"
  /\ pickup_counts[1] + pickup_counts[2] >= 1
  /\ physical_gold_carriers = <<>>
  /\ scores[1] + scores[2] = 0

(* C2: a pair is recorded as carrying, and its team's pickup count grows, only
   for a cell that held at least one unit and on which exactly the two robots
   of the pair were the team's robots intending pickup *)
C2_PickupOnlyByTwo ==
  [][pc = "execute" =>
       /\ \A p \in NewPairs :
            /\ Cardinality(p) = 2
            /\ grid[physical_gold_carriers'[p]] >= 1
            /\ p = IntendersAt(physical_gold_carriers'[p], TeamOfPair(p))
       /\ \A t \in {1, 2} :
            pickup_counts'[t] - pickup_counts[t]
              = Cardinality({p \in NewPairs : TeamOfPair(p) = t})]_vars
(* a pickup has just succeeded for two robots that both asked for it *)
C2_Witness ==
  /\ pc = "check"
  /\ \E p \in DOMAIN physical_gold_carriers :
       \A id \in p : robots[id].next_action = "pickup"

(* two robots of each group intend pickup on cell c, which holds exactly 1 unit *)
ConflictAt(c) ==
  /\ grid[c] = 1
  /\ Cardinality(IntendersAt(c, 1)) = 2
  /\ Cardinality(IntendersAt(c, 2)) = 2

(* C3: in a conflict on a cell with exactly 1 unit both attempts fail: the cell
   keeps its unit, no pair is recorded, the pickup counts stay, and none of the
   four robots is carrying, so none can become carrying_gold *)
C3_ConflictBothFail ==
  [][/\ (pc = "execute" /\ \E c \in Cells : ConflictAt(c)) =>
          /\ \A c \in Cells : ConflictAt(c) =>
               /\ grid'[c] = 1
               /\ \A id \in IntendersAt(c, 1) \cup IntendersAt(c, 2) :
                    ~is_robot_physically_carrying(physical_gold_carriers', id)
          /\ NewPairs = {}
          /\ pickup_counts' = pickup_counts
     /\ \A id \in RobotIds :
          (robots'[id].state = "carrying_gold" /\ robots[id].state # "carrying_gold") =>
             is_robot_physically_carrying(physical_gold_carriers, id)]_vars
(* the tick after a conflict: four robots asked for the one unit, it is still there *)
C3_Witness ==
  /\ pc = "check"
  /\ \E c \in Cells : ConflictAt(c)
  /\ physical_gold_carriers = <<>>

(* a is paired with b and holds, but b is not paired with a or does not hold *)
Asymmetric(a, b) ==
  /\ robots[a].carrying_with = b
  /\ robots[a].holding_gold
  /\ ~(robots[b].carrying_with = a /\ robots[b].holding_gold)
IsReset(r) == r.state = "exploring" /\ ~r.holding_gold /\ r.carrying_with = NoId

(* C4: partner symmetry.  Whenever, at the start of a tick's updates, robot a
   holds with carrying_with = b while b does not hold with carrying_with = a,
   that tick's updates leave both a and b reset: exploring, not holding, no
   partner *)
C4_PartnerSymmetry ==
  [][pc = "update" =>
       \A a \in RobotIds : \A b \in RobotIds :
         Asymmetric(a, b) => IsReset(robots'[a]) /\ IsReset(robots'[b])]_vars

(* C5: a successful pickup takes one unit off the pair's cell, and the update
   that follows leaves both robots of the pair holding, in carrying_gold, and
   each with the other as carrying_with *)
C5_PickupMakesPartners ==
  [][/\ pc = "execute" =>
          \A p \in NewPairs :
            grid'[physical_gold_carriers'[p]] = grid[physical_gold_carriers'[p]] - 1
     /\ pc = "update" =>
          \A p \in DOMAIN physical_gold_carriers : \A a \in p :
            ~robots[a].holding_gold =>
               /\ robots'[a].holding_gold
               /\ robots'[a].state = "carrying_gold"
               /\ \A b \in p \ {a} : robots'[a].carrying_with = b]_vars

(* C6: a team's score grows only in _execute_actions, by one for each of its
   carrying pairs whose two robots are both on the team's deposit cell after
   the movement phase *)
C6_DepositNeedsBoth ==
  [][\A t \in {1, 2} :
       /\ scores'[t] >= scores[t]
       /\ scores'[t] # scores[t] => pc = "execute"
       /\ pc = "execute" =>
            scores'[t] - scores[t] =
              Cardinality({p \in DOMAIN physical_gold_carriers :
                             /\ TeamOfPair(p) = t
                             /\ \A id \in p : robots'[id].position = get_deposit_pos(t)})]_vars
(* a team has scored and both of its robots stand on its deposit cell *)
C6_Witness ==
  /\ pc = "check"
  /\ scores[1] = 1
  /\ \A id \in {0, 1} : robots[id].position = Deposit1Pos

(* robot id believes it holds while no pair of physical_gold_carriers has it:
   its pair dropped or delivered in the last _execute_actions *)
LostPair(id) ==
  robots[id].holding_gold /\ ~is_robot_physically_carrying(physical_gold_carriers, id)
Mates(id) == {o \in RobotIds : o # id /\ GroupOf(o) = GroupOf(id)}
(* a drop leaves the two robots on different cells, a delivery on the same cell *)
JustDropped(id) ==
  LostPair(id) /\ \E o \in Mates(id) : LostPair(o) /\ robots[o].position # robots[id].position
JustDelivered(id) ==
  LostPair(id) /\ \E o \in Mates(id) : LostPair(o) /\ robots[o].position = robots[id].position

(* in _execute_actions a carrying pair whose robots end the movement phase on
   different cells puts its unit back on the cell the two shared before the
   movement, stops carrying, and leaves its team's score alone *)
DropPutsUnitBack ==
  pc = "execute" =>
    \A p \in DOMAIN physical_gold_carriers :
      (\E a \in p : \E b \in p : robots'[a].position # robots'[b].position) =>
         /\ \A a \in p : grid'[robots[a].position] = 1
         /\ p \notin DOMAIN physical_gold_carriers'
         /\ scores'[TeamOfPair(p)] = scores[TeamOfPair(p)]

(* in _execute_actions a carrying pair whose robots are both on their deposit
   cell after the movement phase stops carrying, and the team's score grows by
   one for each such pair *)
DeliveryScoresOnce ==
  pc = "execute" =>
    \A t \in {1, 2} :
      LET home == {p \in DOMAIN physical_gold_carriers :
                     /\ TeamOfPair(p) = t
                     /\ \A a \in p : robots'[a].position = get_deposit_pos(t)}
      IN /\ scores'[t] = scores[t] + Cardinality(home)
         /\ \A p \in home : p \notin DOMAIN physical_gold_carriers'

BackExploring(r) ==
  r.state = "exploring" /\ ~r.holding_gold /\ r.carrying_with = NoId /\ r.target_gold_pos = NoPos

(* not holding and without partner, and either exploring with nothing in hand
   or already in the first state of a new conversation *)
Restarted(r) ==
  /\ ~r.holding_gold
  /\ r.carrying_with = NoId
  /\ \/ r.state = "exploring" /\ r.role = "exploring" /\ r.target_gold_pos = NoPos
     \/ r.state = "finder_waiting_response" /\ r.role = "finder"
     \/ r.state = "helper_waiting_ack" /\ r.role = "helper"

(* C7 as stated: after a drop the unit is back on the shared cell, the pair
   has stopped carrying, the score is unchanged, and the next update leaves
   both robots exploring, not holding, with no partner and no target *)
C7_DropResetsToExploring ==
  [][/\ DropPutsUnitBack
     /\ pc = "update" =>
          \A id \in RobotIds : JustDropped(id) => BackExploring(robots'[id])]_vars

(* C7 amended: as above, but the next update leaves both robots not holding
   and with no partner, and exploring with no target unless that same update
   made the robot the finder of a unit it sees or the helper of a found
   message in its inbox *)
C7_DropRestartsBoth ==
  [][/\ DropPutsUnitBack
     /\ pc = "update" =>
          \A id \in RobotIds : JustDropped(id) => Restarted(robots'[id])]_vars
(* a robot whose pair has just dropped is about to update with a unit in view *)
C7_Witness ==
  /\ pc = "update"
  /\ \E id \in RobotIds :
       JustDropped(id) /\ observe(grid, robots[id].position, robots[id].direction) # <<>>

(* C8 as stated: a delivery raises the score by exactly one, the pair stops
   carrying, and the next update leaves both robots exploring, not holding and
   with no partner *)
C8_DeliveryResetsToExploring ==
  [][/\ DeliveryScoresOnce
     /\ pc = "update" =>
          \A id \in RobotIds : JustDelivered(id) => IsReset(robots'[id])]_vars

(* C8 amended: a delivery raises the score by exactly one and the pair stops
   carrying; the next update, when the run has one, leaves both robots not
   holding and with no partner, and exploring unless that same update made the
   robot the finder of a unit it sees or the helper of a found message in its
   inbox *)
C8_DeliveryRestartsBoth ==
  [][/\ DeliveryScoresOnce
     /\ pc = "update" =>
          \A id \in RobotIds : JustDelivered(id) => Restarted(robots'[id])]_vars
(* a robot whose pair has just delivered is about to update with a teammate's
   found message in its inbox *)
C8_Witness ==
  /\ pc = "update"
  /\ \E id \in RobotIds :
       /\ JustDelivered(id)
       /\ \E k \in 1 .. Len(robots[id].message_inbox) :
            robots[id].message_inbox[k].type = "found"

(* PartnerSeenHere as this tick's decide_action evaluates it: on the
   teammate_states left by this tick's process_messages *)
SeenThisTick(id) ==
  PartnerSeenHere([robots[id] EXCEPT !.teammate_states = robots'[id].teammate_states])

(* C9: a robot enters waiting_at_gold with wait_timer 0; every update it
   starts in waiting_at_gold without its partner cached as waiting on its cell
   either keeps it waiting with wait_timer one higher and at most 30, or
   leaves it exploring with carrying_with = None.  So the 31st such update
   after entering at the latest leaves it exploring without partner *)
C9_WaitingTimeout ==
  [][pc = "update" =>
       \A id \in RobotIds :
         /\ (robots[id].state # "waiting_at_gold" /\ robots'[id].state = "waiting_at_gold")
              => robots'[id].wait_timer = 0
         /\ (robots[id].state = "waiting_at_gold" /\ ~SeenThisTick(id)) =>
              \/ /\ robots'[id].state = "waiting_at_gold"
                 /\ robots'[id].wait_timer = robots[id].wait_timer + 1
                 /\ robots'[id].wait_timer <= WaitAtGoldTimeout
              \/ /\ robots'[id].state = "exploring"
                 /\ robots'[id].carrying_with = NoId]_vars
(* a robot has waited 30 ticks on the unit and still has no word of its
   partner being there: its next update is the 31st *)
C9_Witness ==
  /\ pc = "update"
  /\ \E id \in RobotIds :
       /\ robots[id].state = "waiting_at_gold"
       /\ robots[id].wait_timer = WaitAtGoldTimeout
       /\ robots[id].message_inbox = <<>>
       /\ ~PartnerSeenHere(robots[id])

IndexedTypes == {"response", "ack", "here", "ack2"}

(* C10: when process_messages comes to a response, ack, here or ack2 whose
   index differs from the robot's current_message_index at that moment, the
   message changes no field of the robot and adds nothing to its outbox *)
C10_StaleIndexIgnored ==
  pc = "update" =>
    \A id \in RobotIds :
      LET sensed == sense_physical_gold_state(
                      robots[id], is_robot_physically_carrying(physical_gold_carriers, id))
          inbox == robots[id].message_inbox
      IN \A k \in 1 .. Len(inbox) :
           LET before == ProcessInbox(id, sensed, SubSeq(inbox, 1, k - 1))
           IN (inbox[k].type \in IndexedTypes
               /\ inbox[k].index # before.current_message_index)
                => ProcessOne(id, before, inbox[k]) = before
(* a finder waiting for responses to its second conversation is about to
   process a response to its first *)
C10_Witness ==
  /\ pc = "update"
  /\ \E id \in RobotIds :
       /\ robots[id].role = "finder"
       /\ robots[id].state = "finder_waiting_response"
       /\ robots[id].current_message_index = 2
       /\ \E k \in 1 .. Len(robots[id].message_inbox) :
            /\ robots[id].message_inbox[k].type = "response"
            /\ robots[id].message_inbox[k].index = 1

(* the robot as process_messages has it when it comes to message k of the
   inbox the update starts with *)
BeforeMessage(id, k) ==
  ProcessInbox(id,
               sense_physical_gold_state(
                 robots[id], is_robot_physically_carrying(physical_gold_carriers, id)),
               SubSeq(robots[id].message_inbox, 1, k - 1))

(* C11: an ack or ack2 whose sender is not the finder the robot is committed
   to (finder_id) at the moment process_messages comes to it leaves the
   robot's state as it is, whatever its index *)
C11_AckOnlyFromOwnFinder ==
  pc = "update" =>
    \A id \in RobotIds :
      \A k \in 1 .. Len(robots[id].message_inbox) :
        LET msg == robots[id].message_inbox[k]
            before == BeforeMessage(id, k)
        IN (msg.type \in {"ack", "ack2"} /\ msg.sender_id # before.finder_id)
             => ProcessOne(id, before, msg).state = before.state

(* how often x occurs in seq *)
Count(x, seq) == Cardinality({k \in 1 .. Len(seq) : seq[k] = x})
Range(seq) == {seq[k] : k \in 1 .. Len(seq)}

(* what a step appends to the inbox of robot id *)
Arrived(id) ==
  SubSeq(robots'[id].message_inbox, Len(robots[id].message_inbox) + 1,
         Len(robots'[id].message_inbox))

(* the robots message m is meant for *)
IntendedRecipients(m) ==
  IF m.broadcast
  THEN {id \in RobotIds : GroupOf(id) = GroupOf(m.sender_id)} \ {m.sender_id}
  ELSE {id \in RobotIds : id = m.recipient_id}

Delivering == pc = "deliver" /\ step < steps

(* C12: when a broadcast message is delivered it lands in the inbox of every
   robot of the sender's team except the sender, and in the inbox of no robot
   of the other team nor of the sender *)
C12_BroadcastToTeammatesOnly ==
  [][Delivering =>
       \A e \in Range(delayed_messages) :
         (e.delivery_step <= step /\ e.msg.broadcast) =>
           \A id \in RobotIds :
             (e.msg \in Range(Arrived(id)))
               <=> (GroupOf(id) = GroupOf(e.msg.sender_id) /\ id # e.msg.sender_id)]_vars
(* a found broadcast has reached a robot while robots of the other team are
   on the grid *)
C12_Witness ==
  /\ pc = "send"
  /\ \E id \in RobotIds :
       /\ \E k \in 1 .. Len(robots[id].message_inbox) :
            robots[id].message_inbox[k].type = "found"
       /\ \E o \in RobotIds : GroupOf(o) # GroupOf(id)

(* C13: a delivery step appends every due pending message once to the inbox
   of each robot it is meant for (a point-to-point message: the robot
   recipient_id only) and to no other inbox, takes it off the pending list and
   leaves the entries not yet due pending; no other step appends to an inbox
   or removes a pending entry.  So no message reaches a recipient twice *)
C13_DeliveredOnceThenGone ==
  [][/\ Delivering =>
          /\ \A e \in Range(delayed_messages) :
               Count(e, delayed_messages') =
                 IF e.delivery_step <= step THEN 0 ELSE Count(e, delayed_messages)
          /\ Range(delayed_messages') \subseteq Range(delayed_messages)
          /\ \A id \in RobotIds :
               \A m \in {e.msg : e \in Range(delayed_messages)} \cup Range(Arrived(id)) :
                 Count(m, Arrived(id)) =
                   IF id \in IntendedRecipients(m)
                   THEN Cardinality({k \in 1 .. Len(delayed_messages) :
                                       /\ delayed_messages[k].msg = m
                                       /\ delayed_messages[k].delivery_step <= step})
                   ELSE 0
     /\ ~Delivering =>
          /\ \A id \in RobotIds :
               robots'[id].message_inbox \in {robots[id].message_inbox, <<>>}
          /\ SubSeq(delayed_messages', 1, Len(delayed_messages)) = delayed_messages]_vars
(* an ack, sent to one robot, has been delivered among three robots or more *)
C13_Witness ==
  /\ pc = "send"
  /\ Cardinality(RobotIds) >= 3
  /\ \E id \in RobotIds :
       \E k \in 1 .. Len(robots[id].message_inbox) :
         /\ robots[id].message_inbox[k].type = "ack"
         /\ \A e \in Range(delayed_messages) : e.msg # robots[id].message_inbox[k]

(* C14: the bus schedules a message it takes at tick t for a tick t + d with
   d inside message_delay_range, no entry is still pending after its tick, a
   delivery step hands over every entry scheduled for this tick, and what it
   hands over was scheduled for this tick *)
C14_DeliveredAtScheduledTick ==
  [][/\ pc = "send" =>
          \A k \in Len(delayed_messages) + 1 .. Len(delayed_messages') :
            /\ delayed_messages'[k].delivery_step - current_step >= message_delay_range[1]
            /\ delayed_messages'[k].delivery_step - current_step <= message_delay_range[2]
     /\ Delivering =>
          /\ \A e \in Range(delayed_messages) :
               /\ e.delivery_step >= step
               /\ e.delivery_step = step =>
                    \A id \in IntendedRecipients(e.msg) : e.msg \in Range(Arrived(id))
          /\ \A id \in RobotIds :
               \A m \in Range(Arrived(id)) :
                 \E e \in Range(delayed_messages) : e.msg = m /\ e.delivery_step = step]_vars
(* an ack that was scheduled LateDelay ticks ahead has been delivered *)
C14_Witness ==
  /\ pc = "send"
  /\ current_step >= LateDelay
  /\ message_delay_range[2] > message_delay_range[1]
  /\ \E id \in RobotIds :
       \E k \in 1 .. Len(robots[id].message_inbox) :
         robots[id].message_inbox[k].type = "ack"

(* C15: with message_delay_range = (0, 0) nothing is pending once the bus has
   taken this tick's messages: each is in its recipients' hands within the
   tick *)
C15_ZeroDelaySameTick ==
  (message_delay_range = ZeroDelayRange /\ pc \in {"update", "execute", "check"})
    => delayed_messages = <<>>

(* robot id as this tick's decide_action finds it: after sensing and after
   process_messages *)
AtDecide(id) ==
  process_messages(id, sense_physical_gold_state(
                         robots[id], is_robot_physically_carrying(physical_gold_carriers, id)))

GivingUpWaits == {"finder_waiting_here", "helper_waiting_ack", "helper_waiting_ack2"}

(* the timeouts of decide_action that fire in this update of robot r *)
ProtocolTimeoutFires(r) ==
  r.state \in GivingUpWaits /\ r.timeout_counter + 1 > max_timeout
RetryTimeoutFires(r) ==
  r.state = "finder_waiting_response" /\ r.timeout_counter + 1 > max_timeout
WaitTimeoutFires(r) ==
  \/ /\ r.state = "at_deposit" /\ r.holding_gold /\ r.wait_timer + 1 > DepositTimeout
  \/ /\ r.state = "ready_to_pickup" /\ ~r.holding_gold /\ r.pickup_timer + 1 > PickupTimeout
  \/ /\ r.state = "waiting_at_gold" /\ ~PartnerSeenHere(r)
     /\ r.wait_timer + 1 > WaitAtGoldTimeout

CleanlyReset(r) ==
  /\ r.state = "exploring" /\ r.role = "exploring"
  /\ r.carrying_with = NoId /\ r.target_gold_pos = NoPos
  /\ r.finder_id = NoId /\ r.helper_id = NoId /\ r.current_message_index = NoId
  /\ r.timeout_counter = 0 /\ r.wait_timer = 0 /\ r.pickup_timer = 0

(* C16 as stated: an update in which any timeout fires, that of
   finder_waiting_response included, ends with the robot cleanly reset *)
C16_AnyTimeoutResets ==
  [][pc = "update" =>
       \A id \in RobotIds :
         (\/ ProtocolTimeoutFires(AtDecide(id))
          \/ RetryTimeoutFires(AtDecide(id))
          \/ WaitTimeoutFires(AtDecide(id)))
           => CleanlyReset(robots'[id])]_vars

(* C16 amended: an update in which the timeout of finder_waiting_here,
   helper_waiting_ack, helper_waiting_ack2, waiting_at_gold, ready_to_pickup
   or at_deposit fires ends with the robot cleanly reset; the timeout of
   finder_waiting_response sends found again with the same index and leaves
   the robot a finder waiting for responses, its counter back at 0 *)
C16_GivingUpResets ==
  [][pc = "update" =>
       \A id \in RobotIds :
         /\ (ProtocolTimeoutFires(AtDecide(id)) \/ WaitTimeoutFires(AtDecide(id)))
              => CleanlyReset(robots'[id])
         /\ RetryTimeoutFires(AtDecide(id)) =>
              /\ robots'[id].state = "finder_waiting_response"
              /\ robots'[id].role = "finder"
              /\ robots'[id].timeout_counter = 0
              /\ robots'[id].current_message_index = robots[id].current_message_index
              /\ \E k \in 1 .. Len(robots'[id].message_outbox) :
                   /\ robots'[id].message_outbox[k].type = "found"
                   /\ robots'[id].message_outbox[k].index = robots[id].current_message_index]_vars
(* a helper that has told its finder it is in place is about to give up
   waiting for the ack2 *)
C16_Witness ==
  /\ pc = "update"
  /\ \E id \in RobotIds :
       /\ AtDecide(id).state = "helper_waiting_ack2"
       /\ ProtocolTimeoutFires(AtDecide(id))

(* the orders in which the robots of S can be updated *)
Orders(S) ==
  {o \in [1 .. Cardinality(S) -> S] : \A i, j \in 1 .. Cardinality(S) : o[i] = o[j] => i = j}

(* C17: for every outcome of this tick's random draws, updating the robots in
   any order leaves every robot as its own update() leaves it when computed
   from its fields, the grid and physical_gold_carriers as they are at the
   start of the updates; so every order gives the result of the order
   all_robots *)
C17_SnapshotIsolation ==
  pc = "update" =>
    \A rnd \in RandomChoices(robots, grid, physical_gold_carriers, random_stream, step) :
      \A order \in Orders(RobotIds) :
        LET res == update_all(order, robots, grid, physical_gold_carriers, rnd)
        IN /\ res = update_all(all_robots, robots, grid, physical_gold_carriers, rnd)
           /\ \A id \in RobotIds :
                res[id] = update(id, robots[id], grid,
                                 is_robot_physically_carrying(physical_gold_carriers, id),
                                 rnd[id])
(* four robots of two teams are about to be updated, one of them with
   messages to read and one changing state on what it sees *)
C17_Witness ==
  /\ pc = "update"
  /\ Cardinality(RobotIds) >= 4
  /\ \E id \in RobotIds : robots[id].message_inbox # <<>>
  /\ \E id \in RobotIds :
       /\ robots[id].state = "exploring"
       /\ observe(grid, robots[id].position, robots[id].direction) # <<>>

(* C18: after every step the two robots of each pair that is recorded as
   carrying, or was until this step, have the same holding_gold; and every
   update leaves each robot's holding_gold equal to whether it is recorded as
   carrying, so both robots of a pair that picked up, dropped or delivered in
   the tick before change holding_gold in the same round of updates *)
C18_PairHoldsTogether ==
  [][/\ \A p \in DOMAIN physical_gold_carriers \cup DOMAIN physical_gold_carriers' :
          \A a, b \in p : robots'[a].holding_gold = robots'[b].holding_gold
     /\ pc = "update" =>
          \A id \in RobotIds :
            robots'[id].holding_gold
              = is_robot_physically_carrying(physical_gold_carriers, id)]_vars
(* a tick ends in which a pair has lost or delivered its unit: both robots
   still have holding_gold, neither is recorded as carrying *)
C18_Witness ==
  /\ pc = "check"
  /\ \E a, b \in RobotIds :
       /\ a # b /\ GroupOf(a) = GroupOf(b)
       /\ robots[a].holding_gold /\ robots[b].holding_gold
       /\ ~is_robot_physically_carrying(physical_gold_carriers, a)
       /\ ~is_robot_physically_carrying(physical_gold_carriers, b)

(* two robots of each team intend pickup on cell c and c holds 2 units or more *)
BothTeamsAt(c) ==
  /\ grid[c] >= 2
  /\ Cardinality(IntendersAt(c, 1)) = 2
  /\ Cardinality(IntendersAt(c, 2)) = 2

(* C19: when exactly two robots of each team intend pickup on a cell holding
   at least 2 units, _execute_actions takes 2 units off the cell, adds 1 to
   each team's pickup count and records both pairs as carrying *)
C19_BothTeamsPickUp ==
  [][pc = "execute" =>
       \A c \in Cells \ DepositCells :
         BothTeamsAt(c) =>
           /\ grid'[c] = grid[c] - 2
           /\ \A t \in {1, 2} :
                /\ pickup_counts'[t] = pickup_counts[t] + 1
                /\ IntendersAt(c, t) \in DOMAIN physical_gold_carriers']_vars

(* where a move takes robot r *)
Ahead(r) ==
  <<r.position[1] + dir_map(r.direction)[1], r.position[2] + dir_map(r.direction)[2]>>

(* C20: every robot stands on a cell of the grid before and after every step,
   and _execute_actions leaves a robot whose action is move and whose
   destination is outside the grid where it is *)
C20_PositionsInGrid ==
  [][\A id \in RobotIds :
       /\ robots[id].position \in Cells
       /\ robots'[id].position \in Cells
       /\ (pc = "execute" /\ robots[id].next_action = "move"
            /\ Ahead(robots[id]) \notin Cells)
            => robots'[id].position = robots[id].position]_vars
(* a robot has just been told to move while facing the north edge from the
   top row *)
C20_Witness ==
  /\ pc = "check"
  /\ \E id \in RobotIds :
       /\ robots[id].next_action = "move"
       /\ robots[id].direction = "N"
       /\ robots[id].position[1] = 0

AllDeposited == scores[1] + scores[2] >= num_gold

(* what is left of the run: the phases of this tick and five for every tick
   still in the budget *)
PhasesLeft ==
  IF pc = "done" THEN 0
  ELSE 5 * (steps - step)
       + (CASE pc = "deliver" -> 5 [] pc = "send" -> 4 [] pc = "update" -> 3
            [] pc = "execute" -> 2 [] OTHER -> 1)

(* C21: the step counter never passes steps and every step of the run leaves
   less of it, so the run ends within steps ticks; it goes from the end of a
   tick to its end exactly when the scores have reached num_gold, and ends
   otherwise only with the budget used up *)
C21_RunTerminates ==
  /\ [](step <= steps /\ PhasesLeft >= 0)
  /\ [][/\ PhasesLeft' < PhasesLeft
        /\ pc = "check" => ((pc' = "done") <=> AllDeposited)
        /\ pc' = "done" =>
             \/ pc = "check" /\ AllDeposited
             \/ pc = "deliver" /\ step = steps]_vars
(* the run has ended before its budget with the only unit delivered *)
C21_Witness ==
  /\ pc = "done"
  /\ step < steps
  /\ num_gold > 0
  /\ AllDeposited

(* C22: on every grid, get_cell gives InvalidCell for every position outside
   and the stored value for every position inside; update_cell with a position
   outside gives the grid back as it is, and with a position inside changes
   that cell and no other *)
C22_GridBounds ==
  \A pos \in Probes :
    /\ pos \notin Cells => get_cell(grid, pos) = InvalidCell
    /\ pos \in Cells => get_cell(grid, pos) = grid[pos]
    /\ \A value \in CellValues :
         LET after == update_cell(grid, pos, value)
         IN /\ DOMAIN after = Cells
            /\ pos \notin Cells => after = grid
            /\ \A c \in Cells : after[c] = IF c = pos THEN value ELSE grid[c]
(* a grid whose far corner has been written, so that a write one row above
   the top edge would hit a cell that differs *)
C22_Witness ==
  /\ grid[<<GridSize - 1, GridSize - 1>>] = 1
  /\ grid[<<0, 0>>] = 0
  /\ \E c \in Cells : grid[c] = 1 /\ c # <<GridSize - 1, GridSize - 1>>

(* the pairs carrying before this call whose robots stand apart after it *)
SeparatedPairs ==
  {p \in DOMAIN physical_gold_carriers :
     \E a, b \in p : robots'[a].position # robots'[b].position}
(* the pairs carrying before this call whose robots both stand on their
   deposit cell after it *)
PairsHome(t) ==
  {p \in DOMAIN physical_gold_carriers :
     \A a \in p : GroupOf(a) = t /\ robots'[a].position = get_deposit_pos(t)}

(* C23: in _execute_actions a robot whose action is pickup keeps its place
   and facing, and a pair recorded in this call stood on the pickup cell
   before any movement; a pair that this call's movement separates is no longer
   carrying after the call and its unit is back on the grid, and a team's score
   grows only by its pairs that stand together on the deposit cell after the
   movement, so a separated pair does not score *)
C23_TickOrdering ==
  [][pc = "execute" =>
       /\ \A id \in RobotIds :
            robots[id].next_action = "pickup" =>
              /\ robots'[id].position = robots[id].position
              /\ robots'[id].direction = robots[id].direction
       /\ \A p \in NewPairs :
            \A a \in p : /\ robots[a].next_action = "pickup"
                         /\ robots[a].position = physical_gold_carriers'[p]
       /\ \A p \in SeparatedPairs :
            /\ p \notin DOMAIN physical_gold_carriers'
            /\ \E a \in p : grid'[robots[a].position] = 1
       /\ \A t \in {1, 2} :
            scores'[t] = scores[t] + Cardinality(PairsHome(t) \ SeparatedPairs)]_vars
(* a tick has ended in which the two robots of a pair went different ways:
   both still have holding_gold, they stand apart and are no longer recorded
   as carrying *)
C23_Witness ==
  /\ pc = "check"
  /\ \E a, b \in RobotIds :
       /\ GroupOf(a) = GroupOf(b)
       /\ robots[a].holding_gold /\ robots[b].holding_gold
       /\ robots[a].carrying_with = b
       /\ robots[a].position # robots[b].position
       /\ ~is_robot_physically_carrying(physical_gold_carriers, a)

(* the acks robot id puts into its outbox in this update *)
AcksSent(id) ==
  {k \in 1 .. Len(robots'[id].message_outbox) : robots'[id].message_outbox[k].type = "ack"}
(* the responses in the inbox of robot id that carry its conversation index *)
MatchingResponses(id) ==
  {k \in 1 .. Len(robots[id].message_inbox) :
     /\ robots[id].message_inbox[k].type = "response"
     /\ robots[id].message_inbox[k].index = robots[id].current_message_index}

(* C24: a finder has a helper_id only outside finder_waiting_response.  An
   update sends at most one ack; it sends one only from finder_waiting_response,
   with the conversation index, addressed to the sender of the first response
   in the inbox that carries this index, who becomes helper_id.  A finder that
   has a helper sends no ack and keeps helper_id until a reset clears it, and a robot
   that becomes finder takes an index above all it has used, so no
   conversation sees a second ack *)
C24_OneHelperPerConversation ==
  /\ [](\A id \in RobotIds :
          robots[id].state = "finder_waiting_response" => robots[id].helper_id = NoId)
  /\ [][pc = "update" =>
          \A id \in RobotIds :
            /\ Cardinality(AcksSent(id)) <= 1
            /\ \A k \in AcksSent(id) :
                 LET ack == robots'[id].message_outbox[k]
                     first == CHOOSE f \in MatchingResponses(id) :
                                \A g \in MatchingResponses(id) : f <= g
                 IN /\ robots[id].state = "finder_waiting_response"
                    /\ MatchingResponses(id) # {}
                    /\ ack.index = robots[id].current_message_index
                    /\ ack.recipient_id = robots[id].message_inbox[first].sender_id
                    /\ ack.helper_id = ack.recipient_id
                    /\ robots'[id].helper_id = ack.recipient_id
            /\ (robots[id].role = "finder" /\ robots[id].helper_id # NoId) =>
                 /\ AcksSent(id) = {}
                 /\ robots'[id].helper_id \in {robots[id].helper_id, NoId}
            /\ robots'[id].message_index >= robots[id].message_index
            /\ (robots[id].role # "finder" /\ robots'[id].role = "finder") =>
                 /\ robots'[id].message_index = robots[id].message_index + 1
                 /\ robots'[id].current_message_index = robots'[id].message_index]_vars
(* a finder waiting for responses is about to read two of them, from two
   teammates, both with its conversation index *)
C24_Witness ==
  /\ pc = "update"
  /\ \E id \in RobotIds :
       /\ robots[id].state = "finder_waiting_response"
       /\ \E j, k \in MatchingResponses(id) :
            robots[id].message_inbox[j].sender_id # robots[id].message_inbox[k].sender_id

(* the inbox of robot id holds a message of this type with its conversation
   index *)
HasIndexed(id, type) ==
  \E k \in 1 .. Len(robots[id].message_inbox) :
    /\ robots[id].message_inbox[k].type = type
    /\ robots[id].message_inbox[k].index = robots[id].current_message_index
SendsNow(id, type) ==
  \E k \in 1 .. Len(robots'[id].message_outbox) :
    /\ robots'[id].message_outbox[k].type = type
    /\ robots'[id].message_outbox[k].index = robots[id].current_message_index
Enters(id, state) == robots[id].state # state /\ robots'[id].state = state

(* C25: in an update, a robot becomes finder_ready only from
   finder_waiting_here on a here of its helper_id with its index, and sends
   ack2 only from finder_ready or on becoming it; a helper enters
   helper_waiting_ack2 only on its rendezvous position while sending here, and
   enters moving_to_gold only from helper_waiting_ack2 on an ack2 with its
   index; a robot enters waiting_at_gold only on its target cell, and
   ready_to_pickup only from waiting_at_gold on that cell *)
C25_RendezvousOrder ==
  [][pc = "update" =>
       \A id \in RobotIds :
         /\ (Enters(id, "finder_ready")
              \/ (robots[id].state # "finder_ready" /\ SendsNow(id, "ack2"))) =>
              /\ robots[id].state = "finder_waiting_here"
              /\ \E k \in 1 .. Len(robots[id].message_inbox) :
                   /\ robots[id].message_inbox[k].type = "here"
                   /\ robots[id].message_inbox[k].sender_id = robots[id].helper_id
                   /\ robots[id].message_inbox[k].index = robots[id].current_message_index
         /\ Enters(id, "helper_waiting_ack2") =>
              /\ SendsNow(id, "here")
              /\ robots'[id].position =
                   get_opposite_position(robots'[id].position, robots'[id].target_gold_pos)
         /\ (Enters(id, "moving_to_gold") /\ robots'[id].role = "helper") =>
              /\ robots[id].state = "helper_waiting_ack2"
              /\ HasIndexed(id, "ack2")
         /\ (Enters(id, "moving_to_gold") /\ robots'[id].role = "finder") =>
              /\ robots[id].state \in {"finder_waiting_here", "finder_ready"}
              /\ SendsNow(id, "ack2")
         /\ Enters(id, "waiting_at_gold") =>
              /\ robots[id].state = "moving_to_gold"
              /\ robots'[id].position = robots'[id].target_gold_pos
         /\ Enters(id, "ready_to_pickup") =>
              /\ robots[id].state = "waiting_at_gold"
              /\ robots'[id].position = robots'[id].target_gold_pos]_vars
(* a helper has come all the way to ready_to_pickup *)
C25_Witness ==
  /\ pc = "execute"
  /\ \E id \in RobotIds :
       /\ robots[id].role = "helper"
       /\ robots[id].state = "ready_to_pickup"
       /\ robots[id].next_action = "idle"

ProtocolWaits == GivingUpWaits \cup {"finder_waiting_response"}
(* robot id starts this update in a protocol wait and no message of its inbox
   takes it out of that wait *)
StillWaiting(id) ==
  /\ robots[id].state \in ProtocolWaits
  /\ AtDecide(id).state = robots[id].state
  /\ AtDecide(id).timeout_counter = robots[id].timeout_counter

(* C26: a robot in a protocol wait has a timeout_counter in 0..15; an update
   that finds it in helper_waiting_ack, finder_waiting_here or
   helper_waiting_ack2 without a matching message raises the counter by one
   while that stays at most 15 and otherwise leaves it exploring, so the 16th
   such update at the latest does; in finder_waiting_response the update that
   would take the counter past 15 instead appends found with the same index to
   the outbox and sets the counter to 0, and every other one appends no found *)
C26_ProtocolWaitCounts ==
  /\ [](\A id \in RobotIds :
          robots[id].state \in ProtocolWaits =>
            robots[id].timeout_counter \in 0 .. max_timeout)
  /\ [][pc = "update" =>
         \A id \in RobotIds :
           StillWaiting(id) =>
             IF robots[id].timeout_counter < max_timeout
             THEN /\ robots'[id].state = robots[id].state
                  /\ robots'[id].timeout_counter = robots[id].timeout_counter + 1
                  /\ ~SendsNow(id, "found")
             ELSE IF robots[id].state \in GivingUpWaits
             THEN robots'[id].state = "exploring"
             ELSE /\ robots'[id].state = "finder_waiting_response"
                  /\ robots'[id].timeout_counter = 0
                  /\ robots'[id].current_message_index = robots[id].current_message_index
                  /\ SendsNow(id, "found")]_vars
(* a helper that offered itself has waited 15 updates for the ack and none is
   in its inbox: this update is the 16th *)
C26_Witness ==
  /\ pc = "update"
  /\ \E id \in RobotIds :
       /\ robots[id].state = "helper_waiting_ack"
       /\ robots[id].timeout_counter = max_timeout
       /\ StillWaiting(id)

(* C27: a robot enters ready_to_pickup with pickup_timer 0 and has it in 0..5
   while there.  An update that finds it in ready_to_pickup without the unit
   asks for the pickup and raises pickup_timer by one while that stays at most
   5, so for five updates in a row at most; the sixth leaves it cleanly reset
   to exploring with the action idle.  An update that finds it in
   ready_to_pickup after the coordinator made it a carrier leaves it in
   carrying_gold, holding, with the action idle *)
C27_PickupRetryWindow ==
  /\ [](\A id \in RobotIds :
          robots[id].state = "ready_to_pickup" =>
            robots[id].pickup_timer \in 0 .. PickupTimeout)
  /\ [][pc = "update" =>
         \A id \in RobotIds :
           /\ Enters(id, "ready_to_pickup") => robots'[id].pickup_timer = 0
           /\ (robots[id].state = "ready_to_pickup"
                /\ is_robot_physically_carrying(physical_gold_carriers, id)) =>
                /\ robots'[id].state = "carrying_gold"
                /\ robots'[id].holding_gold
                /\ robots'[id].next_action = "idle"
           /\ (AtDecide(id).state = "ready_to_pickup" /\ ~AtDecide(id).holding_gold) =>
                IF robots[id].pickup_timer < PickupTimeout
                THEN /\ robots'[id].state = "ready_to_pickup"
                     /\ robots'[id].pickup_timer = robots[id].pickup_timer + 1
                     /\ robots'[id].next_action = "pickup"
                ELSE /\ CleanlyReset(robots'[id])
                     /\ robots'[id].next_action = "idle"]_vars
(* a robot has asked for the pickup five times without getting hold of the
   unit: this update is the sixth *)
C27_Witness ==
  /\ pc = "update"
  /\ \E id \in RobotIds :
       /\ AtDecide(id).state = "ready_to_pickup"
       /\ ~AtDecide(id).holding_gold
       /\ robots[id].pickup_timer = PickupTimeout

(* robot r is in at_deposit, holding, and this update takes its wait_timer
   past 20 *)
DepositTimeoutFires(r) ==
  r.state = "at_deposit" /\ r.holding_gold /\ r.wait_timer + 1 > DepositTimeout

(* C28: an update in which the at_deposit timeout of a holding robot fires
   leaves that robot and the partner it carries with both in exploring and
   neither holding *)
C28_DepositTimeoutResetsPair ==
  [][pc = "update" =>
       \A id \in RobotIds :
         DepositTimeoutFires(AtDecide(id)) =>
           /\ robots'[id].state = "exploring"
           /\ ~robots'[id].holding_gold
           /\ \A p \in RobotIds :
                p = AtDecide(id).carrying_with =>
                  /\ robots'[p].state = "exploring"
                  /\ ~robots'[p].holding_gold]_vars
(* what the code does instead: the robot whose timeout fires is reset to
   exploring but still holds, and its partner goes on as it was *)
C28_OnlyOneResetStillHolding ==
  [][pc = "update" =>
       \A id \in RobotIds :
         DepositTimeoutFires(AtDecide(id)) =>
           /\ robots'[id].state = "exploring"
           /\ robots'[id].holding_gold
           /\ \A p \in RobotIds :
                p = AtDecide(id).carrying_with =>
                  /\ robots'[p].state = robots[p].state
                  /\ robots'[p].holding_gold]_vars
C28_TimeoutFired ==
  /\ pc = "execute"
  /\ robots[0].state = "exploring" /\ robots[0].holding_gold
  /\ robots[1].state = "carrying_gold" /\ robots[1].holding_gold

(* the pairs of physical_gold_carriers whose robots are both in carrying_gold
   on one cell, facing one way *)
LockstepPairs ==
  {p \in DOMAIN physical_gold_carriers :
     \A a, b \in p :
       /\ robots[a].state = "carrying_gold" /\ robots[a].holding_gold
       /\ robots[a].position = robots[b].position
       /\ robots[a].direction = robots[b].direction}
(* the turns and moves _get_move_action_towards still asks of robot r on its
   way to target, a move weighing 3 *)
Effort(r, target) ==
  IF r.position = target THEN 0
  ELSE LET want == DesiredDir(r.position, target)
           left_turns == (DirIdx(r.direction) - DirIdx(want)) % 4
           right_turns == (DirIdx(want) - DirIdx(r.direction)) % 4
       IN 3 * Manhattan(r.position, target)
          + (IF left_turns <= right_turns THEN left_turns ELSE right_turns)

(* C29: the two robots of a pair that is carrying, co-located and facing one
   way leave every update with the same action, a move or a turn, both still
   in carrying_gold; _execute_actions finds the two with one action (idle only
   in the tick they became carriers) and leaves them on one cell facing one
   way, nearer to their deposit cell by that move or turn, and either still
   carrying or, once they stand on the deposit cell, scored *)
C29_LockstepCarrying ==
  /\ [](pc = "execute" =>
          \A p \in LockstepPairs : \A a, b \in p :
            robots[a].next_action = robots[b].next_action)
  /\ [][\A p \in LockstepPairs : \A a, b \in p :
          /\ pc = "update" =>
               /\ robots'[a].next_action = robots'[b].next_action
               /\ robots'[a].next_action \in {"move", "turn_left", "turn_right"}
               /\ robots'[a].state = "carrying_gold" /\ robots'[a].holding_gold
          /\ pc = "execute" =>
               /\ robots'[a].position = robots'[b].position
               /\ robots'[a].direction = robots'[b].direction
               /\ robots[a].next_action # "idle" =>
                    Effort(robots'[a], get_deposit_pos(GroupOf(a)))
                      < Effort(robots[a], get_deposit_pos(GroupOf(a)))
               /\ IF robots'[a].position = get_deposit_pos(GroupOf(a))
                  THEN /\ p \notin DOMAIN physical_gold_carriers'
                       /\ scores'[GroupOf(a)] > scores[GroupOf(a)]
                  ELSE /\ p \in DOMAIN physical_gold_carriers'
                       /\ scores'[GroupOf(a)] = scores[GroupOf(a)]]_vars
(* a pair in step that set out from the far corner is one move from its
   deposit cell *)
C29_Witness ==
  /\ pc = "execute"
  /\ step >= 4
  /\ \E p \in LockstepPairs : \A a \in p :
       /\ robots[a].next_action = "move"
       /\ Ahead(robots[a]) = get_deposit_pos(GroupOf(a))

(* the facing along the axis with the larger absolute delta from pos to
   target, the column axis when the two are equal *)
GreedyFacing(pos, target) ==
  IF Abs(target[1] - pos[1]) > Abs(target[2] - pos[2])
  THEN (IF target[1] > pos[1] THEN "S" ELSE "N")
  ELSE (IF target[2] > pos[2] THEN "E" ELSE "W")
(* quarter turns between two facings, the shorter way round *)
QuarterTurns(d, e) ==
  LET k == (DirIdx(e) - DirIdx(d)) % 4 IN IF k = 3 THEN 1 ELSE k

(* C30: a step of a robot that stands on a cell other than its target is a
   turn while the robot does not face the greedy facing, and leaves it on its
   cell one quarter turn nearer to that facing, which is at most two quarter
   turns away; it is a move once the robot faces it, and the move leaves the
   robot on a cell of the grid whose Manhattan distance to the target is
   exactly one less.  Three times the distance plus the quarter turns left
   falls with every step, so the robot reaches its target *)
C30_GreedyStepping ==
  [][\A id \in RobotIds :
       robots[id].position # robots[id].target_gold_pos =>
         LET r == robots[id]
             q == robots'[id]
             want == GreedyFacing(r.position, r.target_gold_pos)
         IN /\ QuarterTurns(r.direction, want) <= 2
            /\ IF r.direction # want
               THEN /\ q.next_action \in {"turn_left", "turn_right"}
                    /\ q.position = r.position
                    /\ QuarterTurns(q.direction, want) = QuarterTurns(r.direction, want) - 1
               ELSE /\ q.next_action = "move"
                    /\ q.direction = r.direction
                    /\ q.position \in Cells
                    /\ q.position = Ahead(r)
                    /\ Manhattan(q.position, r.target_gold_pos)
                         = Manhattan(r.position, r.target_gold_pos) - 1
            /\ Effort(q, r.target_gold_pos) < Effort(r, r.target_gold_pos)]_vars
(* a robot has just moved onto its target *)
C30_Witness ==
  \E id \in RobotIds :
    /\ robots[id].position = robots[id].target_gold_pos
    /\ robots[id].next_action = "move"

(* the cell one step from pos in direction d: N is row - 1, S row + 1,
   E column + 1, W column - 1 *)
OneCell(pos, d) ==
  CASE d = "N" -> <<pos[1] - 1, pos[2]>>
    [] d = "S" -> <<pos[1] + 1, pos[2]>>
    [] d = "E" -> <<pos[1], pos[2] + 1>>
    [] OTHER   -> <<pos[1], pos[2] - 1>>
LeftOf == [d \in {"N", "E", "S", "W"} |->
             CASE d = "N" -> "W" [] d = "W" -> "S" [] d = "S" -> "E" [] OTHER -> "N"]
RightOf == [d \in {"N", "E", "S", "W"} |->
              CASE d = "N" -> "E" [] d = "E" -> "S" [] d = "S" -> "W" [] OTHER -> "N"]
Four(r, action) ==
  execute_action(execute_action(execute_action(execute_action(r, action), action), action), action)

(* C31: a move whose destination is on the grid puts the robot on the cell
   one step ahead and keeps its facing; a move towards the edge leaves it as
   it is; turn_left takes N to W, W to S, S to E and E to N, turn_right takes
   N to E, E to S, S to W and W to N, both on the spot; a right turn undoes the
   left turn just made, a left turn the right turn, and four equal turns bring
   the facing back *)
C31_MoveAndTurn ==
  [][\A id \in RobotIds :
       LET r == robots[id]
           q == robots'[id]
       IN /\ q.next_action = "move" =>
               /\ q.direction = r.direction
               /\ q.position = IF OneCell(r.position, r.direction) \in Cells
                                THEN OneCell(r.position, r.direction)
                                ELSE r.position
          /\ q.next_action = "turn_left" =>
               /\ q.position = r.position
               /\ q.direction = LeftOf[r.direction]
               /\ execute_action(q, "turn_right").direction = r.direction
          /\ q.next_action = "turn_right" =>
               /\ q.position = r.position
               /\ q.direction = RightOf[r.direction]
               /\ execute_action(q, "turn_left").direction = r.direction
          /\ q.next_action \in {"idle", "pickup"} =>
               q.position = r.position /\ q.direction = r.direction
          /\ Four(r, "turn_left").direction = r.direction
          /\ Four(r, "turn_right").direction = r.direction]_vars
(* a robot that faced north has just turned left and faces west *)
C31_Witness ==
  \E id \in RobotIds :
    /\ robots[id].next_action = "turn_left"
    /\ robots[id].direction = "W"

(* cell h lies across cell g from cell f: seen from g, h and f are on
   opposite sides *)
AcrossFrom(h, g, f) ==
  (h[1] - g[1]) * (f[1] - g[1]) + (h[2] - g[2]) * (f[2] - g[2]) < 0

(* C32: the cell from which a helper sends here is next to the resource cell
   and lies across the resource from where its finder stands *)
C32_RendezvousOppositeFinder ==
  [][pc = "update" =>
       \A id \in RobotIds :
         (Enters(id, "helper_waiting_ack2") /\ robots'[id].finder_id \in RobotIds) =>
           /\ Manhattan(robots'[id].position, robots'[id].target_gold_pos) = 1
           /\ AcrossFrom(robots'[id].position, robots'[id].target_gold_pos,
                         robots[robots'[id].finder_id].position)]_vars
(* the part of C32 the code keeps: the cell is next to the resource cell and
   is the one of its neighbours nearest to the helper *)
C32_RendezvousAdjacent ==
  [][pc = "update" =>
       \A id \in RobotIds :
         Enters(id, "helper_waiting_ack2") =>
           Manhattan(robots'[id].position, robots'[id].target_gold_pos) = 1]_vars

(* the numbers get_next_proposal_number has returned to robot id so far *)
Produced(id) ==
  {get_next_proposal_number(id, [robots[id] EXCEPT !.proposal_number = k - 1]).number :
     k \in 1 .. robots[id].proposal_number}

(* C35: every number a robot draws is greater than all it drew before, and no
   number is drawn by two robots *)
C35_ProposalNumbersUnique ==
  /\ [](\A a, b \in RobotIds : a # b => Produced(a) \cap Produced(b) = {})
  /\ [](\A a \in RobotIds : Cardinality(Produced(a)) = robots[a].proposal_number)
  /\ [][\A a \in RobotIds :
          robots'[a].proposal_number # robots[a].proposal_number =>
            /\ robots'[a].proposal_number = robots[a].proposal_number + 1
            /\ robots'[a].highest_proposal_seen \in Produced(a)'
            /\ \A n \in Produced(a) : n < robots'[a].highest_proposal_seen
            /\ \A b \in RobotIds \ {a} : robots'[a].highest_proposal_seen \notin Produced(b)]_vars
(* robot 0 has drawn twice and robot 10 once *)
C35_Witness ==
  /\ 0 \in RobotIds /\ 10 \in RobotIds
  /\ robots[0].proposal_number = 2
  /\ robots[10].proposal_number = 1

(* the robots of pair p stand on one cell *)
Together(p) == \A a, b \in p : robots[a].position = robots[b].position

(* C36: the two robots of every pair in physical_gold_carriers stand on one
   cell whenever _execute_actions is not under way, and a pair that was
   carrying or picked up in a call of _execute_actions and whose robots stand
   apart after its movement is not in physical_gold_carriers after the call *)
C36_CarriersCoLocated ==
  /\ [](\A p \in DOMAIN physical_gold_carriers : Together(p))
  /\ [][pc = "execute" =>
         \A p \in DOMAIN physical_gold_carriers :
           (\E a, b \in p : robots'[a].position # robots'[b].position)
             => p \notin DOMAIN physical_gold_carriers']_vars
(* a carrying pair has just moved one cell together *)
C36_Witness ==
  /\ pc = "check"
  /\ \E p \in DOMAIN physical_gold_carriers :
       /\ Together(p)
       /\ \A a \in p : robots[a].next_action = "move" /\ robots[a].position # physical_gold_carriers[p]

(* C37: every key of physical_gold_carriers is a set of two robots of one
   team, and no robot is in two of them *)
C37_PairsWellFormed ==
  /\ \A p \in DOMAIN physical_gold_carriers :
       /\ p \subseteq RobotIds
       /\ Cardinality(p) = 2
       /\ \A a, b \in p : GroupOf(a) = GroupOf(b)
  /\ \A p, q \in DOMAIN physical_gold_carriers : p # q => p \cap q = {}
(* two robots of a team of three are a pair while the third has just asked
   for a pickup *)
C37_Witness ==
  /\ pc = "execute"
  /\ \E p \in DOMAIN physical_gold_carriers :
       \E c \in RobotIds \ p :
         /\ \A a \in p : GroupOf(a) = GroupOf(c)
         /\ robots[c].next_action = "pickup"

(* C38: the cell of group 1's deposit holds 2, that of group 2's holds 3 and
   every other cell holds 0 or 1; a pair recorded by _execute_actions picked
   up on a cell that is no deposit cell and held a unit, and a cell this call
   changes is no deposit cell *)
C38_CellValues ==
  /\ [](\A c \in Cells :
          grid[c] = IF c = Deposit1Pos THEN Deposit1Mark
                    ELSE IF c = Deposit2Pos THEN Deposit2Mark
                    ELSE IF grid[c] = 1 THEN 1 ELSE 0)
  /\ [][pc = "execute" =>
         /\ \A n \in NewPickups(robots, grid) :
               n.pos \notin DepositCells /\ grid[n.pos] = 1
         /\ \A c \in DepositCells : grid'[c] = grid[c]]_vars
(* a unit that was picked up lies on the grid again after a drop *)
C38_Witness ==
  /\ pc = "check"
  /\ pickup_counts[1] + pickup_counts[2] >= 1
  /\ scores[1] + scores[2] = 0
  /\ DOMAIN physical_gold_carriers = {}
  /\ CountGold(grid) >= 1

(* the teammates of group g, and the 'response' messages that can still reach
   one of them: in an outbox, on the simulation's delay list or in an inbox *)
TeamOf(g) == {id \in RobotIds : GroupOf(id) = g}
ResponsesPending(g) ==
  \/ \E id \in TeamOf(g) :
        \E m \in Range(robots[id].message_outbox) \cup Range(robots[id].message_inbox) :
          m.type = "response"
  \/ \E e \in Range(delayed_messages) :
        e.msg.type = "response" /\ GroupOf(e.msg.sender_id) = g
(* every teammate of group g waits as a finder and no response is under way *)
AllFindersWaiting(g) ==
  /\ Cardinality(TeamOf(g)) >= 2
  /\ \A id \in TeamOf(g) : robots[id].state = "finder_waiting_response"
  /\ ~ResponsesPending(g)

(* C39: a robot that enters finder_waiting_response leaves it again, so the
   robots of a team are never all waiting as finders with no response under
   way *)
C39_TeamNeverAllWaiting == \A g \in {1, 2} : ~AllFindersWaiting(g)
(* once every teammate waits as a finder with no response under way, the team
   stays so in every later state of the run *)
C39_AllWaitingIsForever ==
  [][\A g \in {1, 2} : AllFindersWaiting(g) => AllFindersWaiting(g)']_vars

(* the set a proposer's majority is taken over: the teammates it knows as
   idle in both senses, and itself *)
IdleSet(id, r) == {IdleTeammateIds(r.teammate_states)[k] :
                     k \in 1 .. Len(IdleTeammateIds(r.teammate_states))} \cup {id}
MajorityOf(received, set) == 2 * Cardinality(received \cap set) > Cardinality(set)
(* robot id, handling message n of its inbox, sends paxos_accept / commits *)
SendsAcceptAt(id, n) ==
  /\ robots[id].message_inbox[n].type = "paxos_promise"
  /\ save_handled(id, robots[id], n - 1).paxos_state = "preparing"
  /\ save_handled(id, robots[id], n).paxos_state = "proposing"
CommitsAt(id, n) ==
  /\ robots[id].message_inbox[n].type = "paxos_accepted"
  /\ save_handled(id, robots[id], n - 1).paxos_state = "proposing"
  /\ save_handled(id, robots[id], n).paxos_state = "finished"

(* all the teammates the robot knows, idle or not, and itself *)
KnownSet(id, r) == {KnownIds(r)[k] : k \in 1 .. Len(KnownIds(r))} \cup {id}

(* C34 as stated: a proposer sends paxos_accept only with promises from, and
   commits only with paxos_accepted replies from, a strict majority of the
   teammates it knows as idle plus itself *)
C34_MajorityOfIdleSet ==
  [][pc = "update" =>
       \A id \in RobotIds : \A n \in 1 .. Len(robots[id].message_inbox) :
         LET before == save_handled(id, robots[id], n - 1)
             after == save_handled(id, robots[id], n)
         IN /\ SendsAcceptAt(id, n) =>
                 MajorityOf(after.promises_received, IdleSet(id, before))
            /\ CommitsAt(id, n) =>
                 MajorityOf(before.accepts_received \cup {robots[id].message_inbox[n].sender_id},
                            IdleSet(id, before))]_vars

(* C34 amended: a proposer sends paxos_accept only with promises from, and
   commits only with paxos_accepted replies from, a strict majority of all
   the teammates it knows, idle or not, plus itself *)
C34_MajorityOfKnownTeammates ==
  [][pc = "update" =>
       \A id \in RobotIds : \A n \in 1 .. Len(robots[id].message_inbox) :
         LET before == save_handled(id, robots[id], n - 1)
             after == save_handled(id, robots[id], n)
         IN /\ SendsAcceptAt(id, n) =>
                 MajorityOf(after.promises_received, KnownSet(id, before))
            /\ CommitsAt(id, n) =>
                 MajorityOf(before.accepts_received \cup {robots[id].message_inbox[n].sender_id},
                            KnownSet(id, before))]_vars
(* a proposer is about to commit on the reply that completes its majority,
   knowing a teammate that is not idle *)
C34_Witness ==
  /\ pc = "update"
  /\ \E id \in RobotIds : \E n \in 1 .. Len(robots[id].message_inbox) :
       /\ CommitsAt(id, n)
       /\ IdleSet(id, save_handled(id, robots[id], n - 1))
            # KnownSet(id, save_handled(id, robots[id], n - 1))

(* robot id is engaged in the round of another robot's proposal *)
EngagedByOther(id) ==
  /\ robots[id].paxos_state \in {"preparing", "proposing"}
  /\ robots[id].highest_proposal_seen >= 0
  /\ robots[id].highest_proposal_seen % ProposalStride # id

(* message n of robot id's inbox is a paxos_accept *)
AcceptAt(id, n) == robots[id].message_inbox[n].type = "paxos_accept"
RepliesAccepted(before, after) ==
  /\ Len(after.message_outbox) = Len(before.message_outbox) + 1
  /\ after.message_outbox[Len(after.message_outbox)].type = "paxos_accepted"

(* C33: handling a paxos_accept whose proposal_id is not lower than
   highest_proposal_seen, a robot records it as accepted_proposal with its
   value as accepted_value and replies paxos_accepted to the sender; a
   paxos_accept with a lower number leaves the robot as it was and draws no
   reply; and no other message draws a paxos_accepted *)
C33_AcceptRule ==
  [][pc = "update" =>
       \A id \in RobotIds : \A n \in 1 .. Len(robots[id].message_inbox) :
         LET msg == robots[id].message_inbox[n]
             before == save_handled(id, robots[id], n - 1)
             after == save_handled(id, robots[id], n)
         IN /\ AcceptAt(id, n) /\ msg.proposal_id < before.highest_proposal_seen
                 => after = before
            /\ AcceptAt(id, n) /\ ~(msg.proposal_id < before.highest_proposal_seen)
                 => /\ after.accepted_proposal = msg.proposal_id
                    /\ after.accepted_value = msg.plan
                    /\ RepliesAccepted(before, after)
                    /\ after.message_outbox[Len(after.message_outbox)]
                         = AcceptedMsg(id, msg.sender_id, msg.proposal_id)
            /\ RepliesAccepted(before, after)
                 => AcceptAt(id, n) /\ msg.proposal_id >= before.highest_proposal_seen]_vars
(* a robot that promised a higher number is about to handle a paxos_accept of
   a lower one *)
C33_Witness ==
  /\ pc = "update"
  /\ \E id \in RobotIds : \E n \in 1 .. Len(robots[id].message_inbox) :
       /\ AcceptAt(id, n)
       /\ robots[id].message_inbox[n].proposal_id
            < save_handled(id, robots[id], n - 1).highest_proposal_seen

(* C40: a robot whose paxos_state became preparing or proposing by answering
   another robot's prepare or accept is back in paxos_state idle by the end
   of a run that goes on for more than WaitAtGoldLimit ticks after the
   proposer's last message, although no commit ever comes *)
C40_AcceptorReturnsToIdle == pc = "done" => ~EngagedByOther(0)
(* a robot engaged in another robot's round, with no paxos_commit in its
   inbox, is still engaged in that round after any step of the run *)
C40_EngagedIsForever ==
  [][(/\ EngagedByOther(0)
      /\ \A m \in Range(robots[0].message_inbox) : m.type # "paxos_commit")
     => EngagedByOther(0)']_vars

====
